---- MODULE Spec2Model ----
(***************************************************************************)
(* Model of the Code Mode core of ClawX: the process supervisor             *)
(* (registerCodeModeHandlers in electron/main/ipc-handlers.ts), the summary *)
(* extraction (extractSummary) and the outbound message chunking            *)
(* (splitForTelegram in the Telegram code bridge).                          *)
(*                                                                          *)
(* The supervisor runs on one event loop: a handler runs without            *)
(* interruption up to its next await on real I/O, so every action below is  *)
(* one such run-to-suspension segment.                                      *)
(***************************************************************************)
EXTENDS Integers, Sequences, FiniteSets, TLC

VARIABLES
    activeProcess,            \* pid of the busy reference, 0 = null
    claudeSessionId,          \* stored continuation token, 0 = null
    lastTgCommandMsgId,       \* reply-thread message id, 0 = null
    currentWorkingDirectory,  \* tracked working directory, 0 = ''
    bridgeEnabled,            \* telegramBridge?.isEnabled
    progressMsgId,            \* the bridge holds a live progress message
    procs,                    \* pid -> the closure state of one executeCore spawn
    nextPid,                  \* next process identifier
    calls,                    \* handler invocations suspended at an await
    nextReq,                  \* next request (prompt / command message) identifier
    expired,                  \* tokens some invocation has detected as expired
    ret,                      \* what the last step returned to its caller
    sumIn, sumCode, sumOut,   \* extractSummary: raw buffer, exit code, result
    splitIn, splitOut,        \* splitForTelegram: arguments, returned messages
    now,                      \* Date.now()
    tracker,                  \* the fields of one StreamProgressTracker
    progress,                 \* the bridge's progressMsgId and lastProgressEditMs
    flights,                  \* transport calls (fetch) that have not returned yet
    chat,                     \* progress messages that exist in the chat
    nextMsg,                  \* next message id the chat hands out
    nEvents,                  \* stream events fed to the tracker so far
    toolsUsed,                \* tool ids that had their tool_use event
    lastCallMs,               \* when updateProgress last reached the transport
    deleteRequested,          \* message ids a deleteMessage call was made for
    run,                      \* one invocation of handleOrchestratedChat
    messages,                 \* the history of the MinimaxOrchestrator
    agents,                   \* closures of the executeCore spawns around that run
    foreign,                  \* execute requests of the desktop UI so far
    botToken,                 \* the bridge holds its credentials
    botUserId,                \* the bot's own user id, 0 for null
    lastUpdateId,             \* the poll cursor
    pollInterval,             \* the poll timer is set
    onCommand, onChat,        \* the callbacks of startPolling are set
    started,                  \* startPolling was called
    fetches,                  \* getUpdates calls that have not returned yet
    updates,                  \* the updates the chat server has created
    seen,                     \* update ids of every batch fetched so far
    dispatched,               \* the callback invocations made so far
    redelivered,              \* update ids dispatched more than once
    dispText, dispOut,        \* dispatchMessage: the message text, the call made
    bridges,                  \* the TelegramCodeBridge objects created so far
    enableCalls,              \* the calls of the enable handler
    telegramBridge,           \* the bridge the handlers refer to, 0 for null
    appended,                 \* the steps addStep was called with, in order
    historyLog,               \* the entries pushed to the history, calls in flight
    isRunning,                \* the isRunning flag of the desktop UI's store
    forwarded,                \* the chat message whose handler feeds the store
    confirmed,                \* the largest offset the chat server was sent
    reconnects,               \* bridge instances created after the first
    earlier,                  \* updates dispatched by earlier bridge instances
    again,                    \* updates of `earlier` dispatched once more
    resetPid,                 \* the next process id at the last 'code:resetSession'
    stream,                   \* text a process has still to write to stdout
    received,                 \* text the 'data' handler has been given so far
    decoded                   \* events the 'data' handler has decoded so far

supVars == <<activeProcess, claudeSessionId, lastTgCommandMsgId,
             currentWorkingDirectory, bridgeEnabled, progressMsgId, procs,
             nextPid, calls, nextReq, expired, ret>>
sumVars == <<sumIn, sumCode, sumOut>>
splitVars == <<splitIn, splitOut>>
progVars == <<now, tracker, progress, flights, chat, nextMsg, nEvents, toolsUsed,
              lastCallMs, deleteRequested>>
orchVars == <<run, agents, foreign, messages>>
pollVars == <<botToken, botUserId, lastUpdateId, pollInterval, onCommand, onChat,
              started, fetches, updates, seen, dispatched, redelivered>>
dispVars == <<dispText, dispOut>>
enableVars == <<bridges, enableCalls, telegramBridge>>
stepVars == <<appended>>
histVars == <<historyLog>>
storeVars == <<isRunning, forwarded>>
serverVars == <<confirmed, reconnects, earlier, again>>
resetVars == <<resetPid>>
chunkVars == <<stream, received, decoded>>
extVars == <<dispVars, enableVars, stepVars, histVars, storeVars, serverVars,
             resetVars, chunkVars>>
auxVars == <<progVars, orchVars, pollVars, extVars>>
vars == <<supVars, sumVars, splitVars, auxVars>>

(***************************************************************************)
(* Bounds of the model.                                                     *)
(***************************************************************************)
MaxProcs == 2     \* processes spawned in one behaviour
MaxReqs == 2      \* requests accepted in one behaviour
MaxCalls == 2     \* handler invocations suspended at the same time

MAX_ROUNDS == 5

Pids == 1..MaxProcs
Dirs == {0, 1}              \* 0: no directory given (''), 1: a directory
Sources == {"ui", "tg", "orch"}

InitTok == 1
FreshTok(p) == p + 1

NoProc == [st |-> "none", src |-> "ui", prompt |-> 0, skip |-> FALSE,
           useResume |-> FALSE, tok |-> 0, sessionExpired |-> FALSE,
           tracker |-> FALSE, signalled |-> FALSE, retryOf |-> 0]

\* a process whose callbacks have all run: its closure is garbage
DoneProc == [NoProc EXCEPT !.st = "done"]

NoRet == [op |-> "none", res |-> "none", pid |-> 0]

Alive(p) == procs[p].st = "run"

(***************************************************************************)
(* executeCore                                                              *)
(***************************************************************************)
Busy == activeProcess # 0

UseResume(skip) == ~skip /\ claudeSessionId # 0

\* the await on sendUserCommand between the busy check and the spawn
AwaitsSend(src) == bridgeEnabled /\ src = "ui"

\* mutant: executeCore never runs in output-collection mode
CollectNever(src) == FALSE

CollectOutput(src) == src = "orch"

NewCall(kind, src, prompt, skip, retryOf) ==
    [kind |-> kind, stage |-> "exec", src |-> src, prompt |-> prompt,
     skip |-> skip, useResume |-> FALSE, retryOf |-> retryOf,
     round |-> 0, wait |-> 0]

NewProc(c) ==
    [NoProc EXCEPT !.st = "run", !.src = c.src, !.prompt = c.prompt,
                   !.skip = c.skip, !.useResume = c.useResume,
                   !.tok = IF c.useResume THEN claudeSessionId ELSE 0,
                   !.tracker = bridgeEnabled, !.retryOf = c.retryOf]

\* the orchestration loop after one executeCore result: next round or stop
OrchNext(c) ==
    IF c.round < MAX_ROUNDS
    THEN {[c EXCEPT !.stage = "chat", !.wait = 0]}
    ELSE {}

Waiters(p, cs) == {c \in cs : c.kind = "orch" /\ c.stage = "wait" /\ c.wait = p}

\* resolve(...) of the promise the orchestration loop awaits for process p
Resolve(p, cs) ==
    (cs \ Waiters(p, cs)) \cup UNION {OrchNext(c) : c \in Waiters(p, cs)}

\* the caller of executeCore gets a failure result
Rejected(c, cs) ==
    IF c.kind = "orch" THEN cs \cup OrchNext(c)
    ELSE IF c.retryOf # 0 /\ CollectOutput(c.src) THEN Resolve(c.retryOf, cs)
    ELSE cs

\* the caller of executeCore gets the promise of process q
Spawned(c, q, cs) ==
    IF c.kind = "orch" THEN cs \cup {[c EXCEPT !.stage = "wait", !.wait = q]}
    ELSE IF c.retryOf # 0 /\ CollectOutput(c.src)
    THEN (cs \ Waiters(c.retryOf, cs))
         \cup {[w EXCEPT !.wait = q] : w \in Waiters(c.retryOf, cs)}
    ELSE cs

\* the retry call of process c.retryOf has returned
RetryReturned(c, ps) ==
    IF c.retryOf # 0
    THEN [ps EXCEPT ![c.retryOf] = DoneProc]
    ELSE ps

\* lines 1658-1698 and 1827-1830: spawn, or the catch of a synchronous throw
SpawnNow(c, cs, ps, throws) ==
    IF throws
    THEN /\ activeProcess' = 0
         /\ procs' = RetryReturned(c, ps)
         /\ calls' = Rejected(c, cs)
         /\ ret' = [op |-> "execute", res |-> "error", pid |-> 0]
         /\ UNCHANGED nextPid
    ELSE /\ nextPid <= MaxProcs
         /\ activeProcess' = nextPid
         /\ procs' = [RetryReturned(c, ps) EXCEPT ![nextPid] = NewProc(c)]
         /\ calls' = Spawned(c, nextPid, cs)
         /\ nextPid' = nextPid + 1
         /\ ret' = [op |-> "execute", res |-> "ok", pid |-> nextPid]

\* lines 1632-1656: executeCore from its entry to its first suspension
ExecEntry(c, cs, ps, exists, throws) ==
    IF Busy
    THEN /\ ret' = [op |-> "execute", res |-> "busy", pid |-> 0]
         /\ procs' = RetryReturned(c, ps)
         /\ calls' = Rejected(c, cs)
         /\ UNCHANGED <<activeProcess, nextPid>>
    ELSE IF ~exists
    THEN /\ ret' = [op |-> "execute", res |-> "nodir", pid |-> 0]
         /\ procs' = RetryReturned(c, ps)
         /\ calls' = Rejected(c, cs)
         /\ UNCHANGED <<activeProcess, nextPid>>
    ELSE IF AwaitsSend(c.src)
    THEN /\ ~throws
         /\ Cardinality(cs) < MaxCalls
         /\ calls' = cs \cup {[c EXCEPT !.stage = "send",
                                        !.useResume = UseResume(c.skip)]}
         /\ procs' = ps
         /\ ret' = NoRet
         /\ UNCHANGED <<activeProcess, nextPid>>
    ELSE SpawnNow([c EXCEPT !.useResume = UseResume(c.skip)], cs, ps, throws)

\* ipcMain.handle('code:execute')
\* cwd: options.cwd; exists: existsSync(cwd); throws: spawn throws synchronously
UIExecute(cwd, exists, throws) ==
    /\ nextReq <= MaxReqs
    /\ currentWorkingDirectory' = IF cwd # 0 THEN cwd ELSE currentWorkingDirectory
    /\ ExecEntry(NewCall("ui", "ui", nextReq, FALSE, 0), calls, procs, exists, throws)
    /\ nextReq' = IF Busy \/ ~exists THEN nextReq ELSE nextReq + 1
    /\ UNCHANGED <<claudeSessionId, lastTgCommandMsgId, bridgeEnabled,
                   progressMsgId, expired>>
    /\ UNCHANGED <<sumVars, splitVars, auxVars>>

\* executeCore resumed after `await telegramBridge.sendUserCommand(prompt)`
ExecAfterSend(c, throws) ==
    /\ c \in calls
    /\ c.stage = "send"
    /\ c.kind # "tg"
    /\ lastTgCommandMsgId' = c.prompt
    /\ SpawnNow(c, calls \ {c}, procs, throws)
    /\ UNCHANGED <<claudeSessionId, currentWorkingDirectory, bridgeEnabled,
                   progressMsgId, nextReq, expired>>
    /\ UNCHANGED <<sumVars, splitVars, auxVars>>

(***************************************************************************)
(* abortActiveProcess and ipcMain.handle('code:abort')                      *)
(***************************************************************************)
AbortedProcs(ps) ==
    IF activeProcess # 0
    THEN [ps EXCEPT ![activeProcess].signalled = TRUE]
    ELSE ps

\* mutant: abort leaves the busy reference to the close callback
AbortedActiveKept == activeProcess

AbortedActive == 0

Abort ==
    /\ procs' = AbortedProcs(procs)
    /\ activeProcess' = IF activeProcess # 0 THEN AbortedActive ELSE activeProcess
    /\ ret' = IF activeProcess # 0
              THEN [op |-> "abort", res |-> "ok", pid |-> activeProcess]
              ELSE [op |-> "abort", res |-> "No active process", pid |-> 0]
    /\ UNCHANGED <<claudeSessionId, lastTgCommandMsgId, currentWorkingDirectory,
                   bridgeEnabled, progressMsgId, nextPid, calls, nextReq, expired>>
    /\ UNCHANGED <<sumVars, splitVars, auxVars>>

(***************************************************************************)
(* startPolling callbacks: onCommand (/code) and handleOrchestratedChat     *)
(***************************************************************************)
\* onCommand up to `await telegramBridge.sendUserCommand(command)`
TgCommand ==
    /\ bridgeEnabled
    /\ nextReq <= MaxReqs
    /\ Cardinality(calls) < MaxCalls
    /\ procs' = AbortedProcs(procs)
    /\ activeProcess' = 0
    /\ calls' = calls \cup {[NewCall("tg", "tg", nextReq, FALSE, 0) EXCEPT !.stage = "send"]}
    /\ nextReq' = nextReq + 1
    /\ ret' = NoRet
    /\ UNCHANGED <<claudeSessionId, lastTgCommandMsgId, currentWorkingDirectory,
                   bridgeEnabled, progressMsgId, nextPid, expired>>
    /\ UNCHANGED <<sumVars, splitVars, auxVars>>

\* onCommand from the return of sendUserCommand to `await sendStatus(...)`
TgSent(c) ==
    /\ c \in calls
    /\ c.kind = "tg"
    /\ c.stage = "send"
    /\ lastTgCommandMsgId' = c.prompt
    /\ calls' = (calls \ {c}) \cup {[c EXCEPT !.stage = "exec"]}
    /\ ret' = NoRet
    /\ UNCHANGED <<activeProcess, claudeSessionId, currentWorkingDirectory,
                   bridgeEnabled, progressMsgId, procs, nextPid, nextReq, expired>>
    /\ UNCHANGED <<sumVars, splitVars, auxVars>>

\* handleOrchestratedChat up to the first `await orchestrator.chat(...)`
OrchChat ==
    /\ bridgeEnabled
    /\ nextReq <= MaxReqs
    /\ Cardinality(calls) < MaxCalls
    /\ procs' = AbortedProcs(procs)
    /\ activeProcess' = 0
    /\ calls' = calls \cup {[NewCall("orch", "orch", nextReq, FALSE, 0) EXCEPT !.stage = "chat"]}
    /\ nextReq' = nextReq + 1
    /\ ret' = NoRet
    /\ UNCHANGED <<claudeSessionId, lastTgCommandMsgId, currentWorkingDirectory,
                   bridgeEnabled, progressMsgId, nextPid, expired>>
    /\ UNCHANGED <<sumVars, splitVars, auxVars>>

\* one reasoning reply: round++, break without a command, else go on to executeCore
OrchReply(c, hasCommand) ==
    /\ c \in calls
    /\ c.kind = "orch"
    /\ c.stage = "chat"
    /\ calls' = (calls \ {c}) \cup
                (IF hasCommand
                 THEN {[c EXCEPT !.stage = "exec", !.round = c.round + 1]}
                 ELSE {})
    /\ ret' = NoRet
    /\ UNCHANGED <<activeProcess, claudeSessionId, lastTgCommandMsgId,
                   currentWorkingDirectory, bridgeEnabled, progressMsgId, procs,
                   nextPid, nextReq, expired>>
    /\ UNCHANGED <<sumVars, splitVars, auxVars>>

\* executeCore called by onCommand or by the orchestration loop after their awaits
ExecuteCoreCall(c, exists, throws) ==
    /\ c \in calls
    /\ c.stage = "exec"
    /\ ExecEntry(c, calls \ {c}, procs, exists, throws)
    /\ UNCHANGED <<claudeSessionId, lastTgCommandMsgId, currentWorkingDirectory,
                   bridgeEnabled, progressMsgId, nextReq, expired>>
    /\ UNCHANGED <<sumVars, splitVars, auxVars>>

(***************************************************************************)
(* The callbacks executeCore registers on the process it spawned            *)
(***************************************************************************)
\* the session id process p reports in its events
SidOf(p) == IF procs[p].useResume THEN procs[p].tok ELSE FreshTok(p)

\* lines 1711-1716
CapturedSession(p) ==
    IF claudeSessionId = 0 THEN SidOf(p) ELSE claudeSessionId

\* lines 1718-1726 and 1743-1745
DetectsExpiry(p) == procs[p].useResume

\* stdout 'data': one line, of kind "sid" (carries session_id), "err" (errors
\* array with the expiry marker) or "prog" (an event the progress tracker shows)
Stdout(p, ev) ==
    /\ Alive(p)
    /\ ev = "sid" => SidOf(p) # 0 /\ SidOf(p) \notin expired
    /\ claudeSessionId' = IF ev = "sid" THEN CapturedSession(p) ELSE claudeSessionId
    /\ procs' = IF ev = "err" /\ DetectsExpiry(p)
                THEN [procs EXCEPT ![p].sessionExpired = TRUE]
                ELSE procs
    /\ expired' = IF ev = "err" /\ DetectsExpiry(p)
                  THEN expired \cup {procs[p].tok}
                  ELSE expired
    /\ progressMsgId' = IF ev = "prog" /\ procs[p].tracker /\ bridgeEnabled
                        THEN TRUE
                        ELSE progressMsgId
    /\ ret' = NoRet
    /\ UNCHANGED <<activeProcess, lastTgCommandMsgId, currentWorkingDirectory,
                   bridgeEnabled, nextPid, calls, nextReq>>
    /\ UNCHANGED <<sumVars, splitVars, auxVars>>

\* stderr 'data' holding the expiry marker
Stderr(p) ==
    /\ Alive(p)
    /\ procs' = IF DetectsExpiry(p)
                THEN [procs EXCEPT ![p].sessionExpired = TRUE]
                ELSE procs
    /\ expired' = IF DetectsExpiry(p) THEN expired \cup {procs[p].tok} ELSE expired
    /\ ret' = NoRet
    /\ UNCHANGED <<activeProcess, claudeSessionId, lastTgCommandMsgId,
                   currentWorkingDirectory, bridgeEnabled, progressMsgId, nextPid,
                   calls, nextReq>>
    /\ UNCHANGED <<sumVars, splitVars, auxVars>>

\* `await progressTracker.finish()` suspends when a live message has to be deleted
FinishSuspends(p) == procs[p].tracker /\ progressMsgId

FinishedProgress(p) == IF procs[p].tracker THEN FALSE ELSE progressMsgId

RepliesToChat(p) == bridgeEnabled /\ ~CollectOutput(procs[p].src)

\* mutant: the close handler leaves the busy reference as it is
ClosedActiveKept(p) == activeProcess

\* the busy reference after the first segment of the close handler (line 1752)
ClosedActive(p) == 0

\* close handler, lines 1774-1798
CloseFinal(p) ==
    /\ procs' = [procs EXCEPT ![p] = DoneProc]
    /\ lastTgCommandMsgId' = IF RepliesToChat(p) THEN 0 ELSE lastTgCommandMsgId
    /\ progressMsgId' = FinishedProgress(p)
    /\ calls' = IF CollectOutput(procs[p].src) THEN Resolve(p, calls) ELSE calls
    /\ UNCHANGED claudeSessionId

RetriesOnClose(p) == procs[p].sessionExpired /\ procs[p].useResume

\* 'close': lines 1751-1759, or 1751-1798 when nothing has to be awaited
Close(p) ==
    /\ Alive(p)
    /\ activeProcess' = ClosedActive(p)
    /\ IF RetriesOnClose(p)
       THEN /\ claudeSessionId' = 0
            /\ procs' = [procs EXCEPT ![p].st = "retry"]
            /\ UNCHANGED <<lastTgCommandMsgId, progressMsgId, calls>>
       ELSE IF FinishSuspends(p)
       THEN /\ procs' = [procs EXCEPT ![p].st = "closing"]
            /\ UNCHANGED <<claudeSessionId, lastTgCommandMsgId, progressMsgId, calls>>
       ELSE CloseFinal(p)
    /\ ret' = NoRet
    /\ UNCHANGED <<currentWorkingDirectory, bridgeEnabled, nextPid, nextReq, expired>>
    /\ UNCHANGED <<sumVars, splitVars, auxVars>>

\* close handler resumed after `await progressTracker.finish()` (line 1785)
CloseFinish(p) ==
    /\ procs[p].st = "closing"
    /\ CloseFinal(p)
    /\ ret' = NoRet
    /\ UNCHANGED <<activeProcess, currentWorkingDirectory, bridgeEnabled, nextPid,
                   nextReq, expired>>
    /\ UNCHANGED <<sumVars, splitVars, auxVars>>

\* the options of the retry call (line 1767)
RetryCall(p) == NewCall("retry", procs[p].src, procs[p].prompt, TRUE, p)

\* close handler resumed after `await setSetting(...)` / finish(): lines 1761-1771
Retry(p, exists, throws) ==
    /\ procs[p].st = "retry"
    /\ progressMsgId' = FinishedProgress(p)
    /\ ExecEntry(RetryCall(p), calls, [procs EXCEPT ![p].st = "retrying"],
                 exists, throws)
    /\ UNCHANGED <<claudeSessionId, lastTgCommandMsgId, currentWorkingDirectory,
                   bridgeEnabled, nextReq, expired>>
    /\ UNCHANGED <<sumVars, splitVars, auxVars>>

\* error handler, lines 1815-1824
ErrorFinal(p) ==
    /\ procs' = [procs EXCEPT ![p] = DoneProc]
    /\ progressMsgId' = FinishedProgress(p)
    /\ lastTgCommandMsgId' = IF RepliesToChat(p) THEN 0 ELSE lastTgCommandMsgId
    /\ activeProcess' = 0
    /\ calls' = IF CollectOutput(procs[p].src) THEN Resolve(p, calls) ELSE calls

\* 'error': lines 1801-1813 (the UI is told first), or 1801-1824
Error(p) ==
    /\ Alive(p)
    /\ IF FinishSuspends(p)
       THEN /\ procs' = [procs EXCEPT ![p].st = "erroring"]
            /\ UNCHANGED <<activeProcess, lastTgCommandMsgId, progressMsgId, calls>>
       ELSE ErrorFinal(p)
    /\ ret' = NoRet
    /\ UNCHANGED <<claudeSessionId, currentWorkingDirectory, bridgeEnabled, nextPid,
                   nextReq, expired>>
    /\ UNCHANGED <<sumVars, splitVars, auxVars>>

\* error handler resumed after `await progressTracker.finish()` (line 1812)
ErrorFinish(p) ==
    /\ procs[p].st = "erroring"
    /\ ErrorFinal(p)
    /\ ret' = NoRet
    /\ UNCHANGED <<claudeSessionId, currentWorkingDirectory, bridgeEnabled, nextPid,
                   nextReq, expired>>
    /\ UNCHANGED <<sumVars, splitVars, auxVars>>

(***************************************************************************)
(* extractSummary(fullOutput, exitCode)                                     *)
(*                                                                         *)
(* fullOutput is held as its '\n'-separated lines.  A line is described by  *)
(* what JSON.parse makes of it and by its raw length:                       *)
(*   "result"    {type:'result', result: text}                              *)
(*   "assistant" {type:'assistant', message:{content: text}}                *)
(*   "blocks"    {type:'assistant', message:{content: [{type:'text',...}]}} *)
(*   "other"     any other JSON value                                       *)
(*   "junk"      not JSON                                                   *)
(*   "blank"     whitespace only                                            *)
(* A text is a sequence of characters.                                      *)
(***************************************************************************)
MaxLines == 2     \* lines of fullOutput

TailLen == 500
NL == "\n"
Whitespace == {" ", NL}
Texts == {<<>>, <<"x">>, <<"y">>, <<" ">>, <<" ", "x">>, <<"y", NL>>}
Codes == {0, 1}

Line(kind, text, blocks, len) ==
    [kind |-> kind, text |-> text, blocks |-> blocks, len |-> len]

Lines ==
    {Line("result", t, <<>>, 40 + Len(t)) : t \in Texts}
    \cup {Line("assistant", t, <<>>, 60 + Len(t)) : t \in Texts}
    \cup {Line("blocks", <<>>, b, 90) : b \in {<<<<>>, <<"x">>>>, <<<<"y">>, <<" ">>>>}}
    \cup {Line("other", <<>>, <<>>, n) : n \in {40, 600}}
    \cup {Line("junk", <<>>, <<>>, n) : n \in {3, 500, 501}}
    \cup {Line("blank", <<>>, <<>>, n) : n \in {0, 1}}

Outputs == UNION {[1..n -> Lines] : n \in 1..MaxLines}

\* fullOutput.length
RECURSIVE RawLen(_)
RawLen(out) ==
    IF Len(out) = 0 THEN 0
    ELSE IF Len(out) = 1 THEN out[1].len
    ELSE out[1].len + 1 + RawLen(Tail(out))

\* String.prototype.trim
RECURSIVE TrimStart(_)
TrimStart(t) ==
    IF t # <<>> /\ Head(t) \in Whitespace THEN TrimStart(Tail(t)) ELSE t

RECURSIVE TrimEnd(_)
TrimEnd(t) ==
    IF t # <<>> /\ t[Len(t)] \in Whitespace
    THEN TrimEnd(SubSeq(t, 1, Len(t) - 1))
    ELSE t

Trim(t) == TrimEnd(TrimStart(t))

\* Array.prototype.join('\n')
RECURSIVE Join(_)
Join(parts) ==
    IF Len(parts) = 0 THEN <<>>
    ELSE IF Len(parts) = 1 THEN parts[1]
    ELSE parts[1] \o <<NL>> \o Join(Tail(parts))

\* lines 2312-2316: text blocks with a non-empty text, in order
TextBlocks(blocks) == SelectSeq(blocks, LAMBDA b : b # <<>>)

\* lines 2303-2318: what one line adds to resultParts and to assistantParts
ResultPush(l) ==
    IF l.kind = "result" /\ l.text # <<>> THEN <<l.text>> ELSE <<>>

AssistantPush(l) ==
    IF l.kind = "assistant" /\ l.text # <<>> THEN <<l.text>>
    ELSE IF l.kind = "blocks" THEN TextBlocks(l.blocks)
    ELSE <<>>

\* the loop of lines 2299-2322
RECURSIVE ScanLines(_, _, _, _)
ScanLines(out, i, resultParts, assistantParts) ==
    IF i > Len(out)
    THEN [resultParts |-> resultParts, assistantParts |-> assistantParts]
    ELSE ScanLines(out, i + 1, resultParts \o ResultPush(out[i]),
                   assistantParts \o AssistantPush(out[i]))

\* mutant: assistant texts win over result entries
PreferredAssistant(resultParts, assistantParts) ==
    IF Len(assistantParts) > 0 THEN assistantParts ELSE resultParts

\* line 2325: result entries are preferred when there are any
Preferred(resultParts, assistantParts) ==
    IF Len(resultParts) > 0 THEN resultParts ELSE assistantParts

\* the strings extractSummary returns
TextSummary(t) == [tag |-> "text", text |-> t, ell |-> FALSE, from |-> 0, to |-> 0]
RawSlice(ell, a, b) == [tag |-> "raw", text |-> <<>>, ell |-> ell, from |-> a, to |-> b]
DoneSummary == [tag |-> "done", text |-> <<>>, ell |-> FALSE, from |-> 0, to |-> 0]
ExitSummary(code) == [tag |-> "exit", text |-> <<>>, ell |-> FALSE, from |-> 0, to |-> code]
NoSummary == [tag |-> "none", text |-> <<>>, ell |-> FALSE, from |-> 0, to |-> 0]

\* lines 2329-2332
Fallback(out, exitCode) ==
    IF RawLen(out) > TailLen
    THEN RawSlice(TRUE, RawLen(out) - TailLen, RawLen(out))
    ELSE IF RawLen(out) > 0 THEN RawSlice(FALSE, 0, RawLen(out))
    ELSE IF exitCode = 0 THEN DoneSummary
    ELSE ExitSummary(exitCode)

extractSummary(out, exitCode) ==
    LET parts == ScanLines(out, 1, <<>>, <<>>)
        summary == Trim(Join(Preferred(parts.resultParts, parts.assistantParts)))
    IN IF summary # <<>> THEN TextSummary(summary) ELSE Fallback(out, exitCode)

SumIdle == sumIn = <<>> /\ sumCode = 0 /\ sumOut = NoSummary

\* line 1788: the close handler summarises what the process wrote
ExtractSummary ==
    /\ sumIn # <<>>
    /\ sumOut = NoSummary
    /\ sumOut' = extractSummary(sumIn, sumCode)
    /\ UNCHANGED <<sumIn, sumCode>>
    /\ UNCHANGED <<supVars, splitVars, auxVars>>

(***************************************************************************)
(* splitForTelegram(escapedBody, headerPrefix, wrapOpen, wrapClose)         *)
(*                                                                         *)
(* Strings are held by their lengths: the body as the lengths of its        *)
(* '\n'-separated lines, the header and the wrapping markup as one length   *)
(* each.  A chunk is a sequence of segments <<line, from, to>> (the slice   *)
(* [from, to) of that line) joined by '\n'; a message is a chunk with its    *)
(* header, wrapping and continuation label <<i, total>> (<<0, 0>>: none).   *)
(***************************************************************************)
MaxBodyLines == 3     \* lines of the body

TG_MAX_LENGTH == 4096
CONT_RESERVE == 14
contLabelLen == 16

LineLens == {0, 1, 100, 4049, 4050, 4060, 9000}

Prefix(h, o, c) == [header |-> h, wrapOpen |-> o, wrapClose |-> c]

\* the two callers (lines 144-146 and 164-166), no markup at all, and markup
\* that leaves little or nothing of a message to the body
Prefixes ==
    {Prefix(22, 5, 6), Prefix(23, 0, 0), Prefix(0, 0, 0), Prefix(3000, 0, 0),
     Prefix(4095, 0, 0), Prefix(0, 2040, 2040)}

Bodies == UNION {[1..n -> LineLens] : n \in 1..MaxBodyLines}

SplitInputs == {[body |-> b, prefix |-> x] : b \in Bodies, x \in Prefixes}

\* the decimal digits of n >= 0
RECURSIVE Digits(_)
Digits(n) == IF n < 10 THEN 1 ELSE 1 + Digits(n \div 10)

\* `\n… (${i}/${total})`
LabelLen(label) ==
    IF label[1] = 0 THEN 0 ELSE 6 + Digits(label[1]) + Digits(label[2])

RECURSIVE SegsLen(_)
SegsLen(segs) ==
    IF Len(segs) = 0 THEN 0
    ELSE IF Len(segs) = 1 THEN segs[1][3] - segs[1][2]
    ELSE (segs[1][3] - segs[1][2]) + 1 + SegsLen(Tail(segs))

Message(h, x, segs, label) ==
    [header |-> h, wrapOpen |-> x.wrapOpen, wrapClose |-> x.wrapClose,
     segs |-> segs, label |-> label]

MsgLen(m) ==
    m.header + m.wrapOpen + SegsLen(m.segs) + m.wrapClose + LabelLen(m.label)

\* line 462
singleMsg(in) ==
    Message(in.prefix.header, in.prefix,
            [i \in 1..Len(in.body) |-> <<i, 0, in.body[i]>>], <<0, 0>>)

\* lines 483-485
firstOverhead(in) ==
    in.prefix.header + in.prefix.wrapOpen + in.prefix.wrapClose + CONT_RESERVE

contOverhead(in) ==
    contLabelLen + in.prefix.wrapOpen + in.prefix.wrapClose + CONT_RESERVE

Max(a, b) == IF a > b THEN a ELSE b
Min(a, b) == IF a < b THEN a ELSE b

\* mutant: nothing is reserved, the body of a chunk may fill the whole message
MaxBodyUnreserved(in) == TG_MAX_LENGTH

\* line 487
maxBodyPerChunk(in) == TG_MAX_LENGTH - Max(firstOverhead(in), contOverhead(in))

\* lines 476-481
flushChunk(st) ==
    IF Len(st.currentLines) = 0 THEN st
    ELSE [chunks |-> Append(st.chunks, st.currentLines),
          currentLines |-> <<>>, currentLen |-> 0]

\* lines 499-504, for a positive budget
RECURSIVE ForceSplit(_, _, _, _, _)
ForceSplit(i, len, pos, budget, chunks) ==
    IF pos < len
    THEN ForceSplit(i, len, pos + budget, budget,
                    Append(chunks, <<<<i, pos, Min(pos + budget, len)>>>>))
    ELSE chunks

\* lines 489-509: one iteration of the loop over the lines
PackLine(st, i, len, budget) ==
    LET lineLen == len + (IF Len(st.currentLines) > 0 THEN 1 ELSE 0)
        st1 == IF st.currentLen + lineLen > budget /\ Len(st.currentLines) > 0
               THEN flushChunk(st)
               ELSE st
    IN IF len > budget
       THEN [flushChunk(st1) EXCEPT
               !.chunks = ForceSplit(i, len, 0, budget, flushChunk(st1).chunks)]
       ELSE [st1 EXCEPT !.currentLines = Append(@, <<i, 0, len>>),
                        !.currentLen = @ + lineLen]

RECURSIVE PackLines(_, _, _, _)
PackLines(st, body, i, budget) ==
    IF i > Len(body) THEN st
    ELSE PackLines(PackLine(st, i, body[i], budget), body, i + 1, budget)

\* the while loop of lines 499-504 never ends: pos does not advance
NeverReturns(in) ==
    /\ maxBodyPerChunk(in) <= 0
    /\ \E i \in 1..Len(in.body) : in.body[i] > 0

Returned(msgs) == [tag |-> "msgs", msgs |-> msgs]
NoReturn == [tag |-> "diverges", msgs |-> <<>>]
NoSplit == [tag |-> "none", msgs |-> <<>>]

splitForTelegram(in) ==
    IF MsgLen(singleMsg(in)) <= TG_MAX_LENGTH THEN Returned(<<singleMsg(in)>>)
    ELSE IF NeverReturns(in) THEN NoReturn
    ELSE
      LET st == PackLines([chunks |-> <<>>, currentLines |-> <<>>, currentLen |-> 0],
                          in.body, 1, maxBodyPerChunk(in))
          chunks == flushChunk(st).chunks
          total == Len(chunks)
      IN IF total = 0 THEN Returned(<<singleMsg(in)>>)
         ELSE IF total = 1
         THEN Returned(<<Message(in.prefix.header, in.prefix, chunks[1], <<0, 0>>)>>)
         ELSE Returned([i \in 1..total |->
                          IF i = 1
                          THEN Message(in.prefix.header, in.prefix, chunks[1], <<1, total>>)
                          ELSE Message(0, in.prefix, chunks[i], <<i, total>>)])

SplitIdle == splitIn = <<>> /\ splitOut = NoSplit

\* sendAssistantResponse / sendOrchestratorMessage split the escaped text
SplitForTelegram ==
    /\ splitIn # <<>>
    /\ splitOut = NoSplit
    /\ splitOut' = splitForTelegram(splitIn)
    /\ UNCHANGED splitIn
    /\ UNCHANGED <<supVars, sumVars, auxVars>>

(***************************************************************************)
(* StreamProgressTracker and the live progress message of the bridge        *)
(* (updateProgress / finishProgress).  Time is in milliseconds.  A tool     *)
(* label is held as the id of its tool_use event, so different tools have   *)
(* different labels.                                                        *)
(***************************************************************************)
MaxEvents == 3       \* stream events of one invocation
MaxTools == 2        \* tool_use events of one invocation
MaxMsgs == 2         \* progress messages the chat creates
MaxElapsed == 2500   \* milliseconds of one behaviour

PROGRESS_THROTTLE_MS == 2000
FLUSH_DELAY_MS == 300
MAX_VISIBLE_STEPS == 8

TickSteps == {300, 2000}

NewTracker ==
    [steps |-> <<>>, currentThinking |-> FALSE, currentTool |-> 0, turnCount |-> 0,
     finished |-> FALSE, flushTimer |-> 0, finishDone |-> FALSE]

NewProgress == [progressMsgId |-> 0, lastProgressEditMs |-> 0]

RunningStep(tool) == [tool |-> tool, done |-> FALSE]

\* mutant: the list is cut at its front, the newest step is the one dropped
addStepKeepOldest(steps, step) ==
    LET pushed == Append(steps, step)
    IN IF Len(pushed) > MAX_VISIBLE_STEPS
       THEN SubSeq(pushed, 1, MAX_VISIBLE_STEPS)
       ELSE pushed

\* addStep, lines 2244-2250
addStep(steps, step) ==
    LET pushed == Append(steps, step)
    IN IF Len(pushed) > MAX_VISIBLE_STEPS
       THEN SubSeq(pushed, Len(pushed) - MAX_VISIBLE_STEPS + 1, Len(pushed))
       ELSE pushed

\* mutant: a trigger arms the timer whether or not one is pending
scheduleFlushUnguarded(t) == [t EXCEPT !.flushTimer = now + FLUSH_DELAY_MS]

\* scheduleFlush, lines 2256-2262: the due time of the timer, 0 = none
scheduleFlush(t) ==
    IF t.flushTimer # 0 THEN t ELSE [t EXCEPT !.flushTimer = now + FLUSH_DELAY_MS]

\* lines 2205-2212: the index of the last step equal to currentTool, 0 = none
LastMatching(steps, tool) ==
    LET hits == {i \in 1..Len(steps) : steps[i] = RunningStep(tool)}
    IN IF hits = {} THEN 0 ELSE CHOOSE i \in hits : \A j \in hits : j <= i

\* the step the tool_result case rewrites
Promoted(steps, tool) ==
    IF LastMatching(steps, tool) = 0 THEN steps
    ELSE [steps EXCEPT ![LastMatching(steps, tool)].done = TRUE]

\* onStreamEvent, lines 2154-2228
onStreamEvent(t, ev) ==
    IF t.finished THEN t
    ELSE IF ev.type = "assistant"
    THEN IF ev.snippet
         THEN scheduleFlush([t EXCEPT !.turnCount = @ + 1, !.currentThinking = TRUE])
         ELSE [t EXCEPT !.turnCount = @ + 1]
    ELSE IF ev.type = "tool_use"
    THEN scheduleFlush([t EXCEPT !.currentTool = ev.tool,
                                 !.steps = addStep(@, RunningStep(ev.tool))])
    ELSE IF ev.type = "tool_result"
    THEN IF t.currentTool # 0
         THEN scheduleFlush([t EXCEPT !.steps = Promoted(@, t.currentTool),
                                      !.currentTool = 0])
         ELSE t
    ELSE t

\* the events the process can print next
Events ==
    {[type |-> "assistant", snippet |-> b, tool |-> 0] : b \in BOOLEAN}
    \cup {[type |-> "tool_use", snippet |-> FALSE, tool |-> x] :
            x \in {y \in 1..MaxTools : y = Cardinality(toolsUsed) + 1}}
    \cup {[type |-> "tool_result", snippet |-> FALSE, tool |-> x] : x \in toolsUsed}
    \cup {[type |-> "system", snippet |-> FALSE, tool |-> 0]}

\* stdout handler, lines 1731-1734: one parsed line goes to the tracker
StreamEvent(ev) ==
    /\ nEvents < MaxEvents
    /\ ev \in Events
    /\ nEvents' = nEvents + 1
    /\ tracker' = onStreamEvent(tracker, ev)
    /\ toolsUsed' = IF ev.type = "tool_use" THEN toolsUsed \cup {ev.tool}
                    ELSE IF ev.type = "tool_result" THEN toolsUsed \ {ev.tool}
                    ELSE toolsUsed
    /\ UNCHANGED <<now, progress, flights, chat, nextMsg, lastCallMs, deleteRequested>>
    /\ UNCHANGED <<supVars, sumVars, splitVars, orchVars, pollVars, extVars>>

\* time passes
Tick(d) ==
    /\ now + d <= PROGRESS_THROTTLE_MS + MaxElapsed
    /\ now' = now + d
    /\ UNCHANGED <<tracker, progress, flights, chat, nextMsg, nEvents, toolsUsed,
                   lastCallMs, deleteRequested>>
    /\ UNCHANGED <<supVars, sumVars, splitVars, orchVars, pollVars, extVars>>

\* flush builds no line: lines 2267-2279
NoLines(t) == t.turnCount = 0 /\ ~t.currentThinking /\ Len(t.steps) = 0

\* updateProgress, line 202
Throttled(force) ==
    ~force /\ now - progress.lastProgressEditMs < PROGRESS_THROTTLE_MS

Flight(op, msg, at) == [op |-> op, msg |-> msg, at |-> at]

\* updateProgress up to its first await, lines 198-221
updateProgress(force) ==
    IF Throttled(force)
    THEN UNCHANGED <<flights, lastCallMs>>
    ELSE /\ flights' = flights \cup
                       {IF progress.progressMsgId # 0
                        THEN Flight("edit", progress.progressMsgId, now)
                        ELSE Flight("send", 0, now)}
         /\ lastCallMs' = now

\* the flush timer fires: lines 2258-2261 and flush, lines 2264-2282
TimerFires ==
    /\ tracker.flushTimer # 0
    /\ now >= tracker.flushTimer
    /\ tracker' = [tracker EXCEPT !.flushTimer = 0]
    /\ IF tracker.finished \/ NoLines(tracker)
       THEN UNCHANGED <<flights, lastCallMs>>
       ELSE updateProgress(FALSE)
    /\ UNCHANGED <<now, progress, chat, nextMsg, nEvents, toolsUsed, deleteRequested>>
    /\ UNCHANGED <<supVars, sumVars, splitVars, orchVars, pollVars, extVars>>

\* editMessage returns: lines 212-217; a deleted message cannot be edited
EditReturns(c, ok) ==
    /\ c \in flights
    /\ c.op = "edit"
    /\ ok => c.msg \in chat
    /\ IF ok
       THEN /\ progress' = [progress EXCEPT !.lastProgressEditMs = c.at]
            /\ flights' = flights \ {c}
       ELSE /\ flights' = (flights \ {c}) \cup {Flight("send", 0, c.at)}
            /\ UNCHANGED progress
    /\ UNCHANGED <<now, tracker, chat, nextMsg, nEvents, toolsUsed, lastCallMs,
                   deleteRequested>>
    /\ UNCHANGED <<supVars, sumVars, splitVars, orchVars, pollVars, extVars>>

\* sendMessage returns: lines 220-226
SendReturns(c, ok) ==
    /\ c \in flights
    /\ c.op = "send"
    /\ flights' = flights \ {c}
    /\ IF ok
       THEN /\ nextMsg <= MaxMsgs
            /\ chat' = chat \cup {nextMsg}
            /\ nextMsg' = nextMsg + 1
            /\ progress' = [progressMsgId |-> nextMsg, lastProgressEditMs |-> c.at]
       ELSE UNCHANGED <<chat, nextMsg, progress>>
    /\ UNCHANGED <<now, tracker, nEvents, toolsUsed, lastCallMs, deleteRequested>>
    /\ UNCHANGED <<supVars, sumVars, splitVars, orchVars, pollVars, extVars>>

\* tracker.finish() up to the await in finishProgress: lines 2233-2239, 233-235
Finish ==
    /\ ~tracker.finished
    /\ IF progress.progressMsgId # 0
       THEN /\ tracker' = [tracker EXCEPT !.finished = TRUE, !.flushTimer = 0]
            /\ flights' = flights \cup {Flight("delete", progress.progressMsgId, now)}
            /\ deleteRequested' = deleteRequested \cup {progress.progressMsgId}
       ELSE /\ tracker' = [tracker EXCEPT !.finished = TRUE, !.flushTimer = 0,
                                          !.finishDone = TRUE]
            /\ UNCHANGED <<flights, deleteRequested>>
    /\ UNCHANGED <<now, progress, chat, nextMsg, nEvents, toolsUsed, lastCallMs>>
    /\ UNCHANGED <<supVars, sumVars, splitVars, orchVars, pollVars, extVars>>

\* deleteMessage returns: lines 236-237, and finish() completes
DeleteReturns(c, ok) ==
    /\ c \in flights
    /\ c.op = "delete"
    /\ flights' = flights \ {c}
    /\ chat' = IF ok THEN chat \ {c.msg} ELSE chat
    /\ progress' = NewProgress
    /\ tracker' = [tracker EXCEPT !.finishDone = TRUE]
    /\ UNCHANGED <<now, nextMsg, nEvents, toolsUsed, lastCallMs, deleteRequested>>
    /\ UNCHANGED <<supVars, sumVars, splitVars, orchVars, pollVars, extVars>>

ProgIdle ==
    /\ now = PROGRESS_THROTTLE_MS
    /\ tracker = NewTracker
    /\ progress = NewProgress
    /\ flights = {}
    /\ chat = {}
    /\ nextMsg = 1
    /\ nEvents = 0
    /\ toolsUsed = {}
    /\ lastCallMs = 0
    /\ deleteRequested = {}

(***************************************************************************)
(* handleOrchestratedChat, MinimaxOrchestrator.chat and extractCommand      *)
(*                                                                         *)
(* One orchestration run is followed from its inbound message to its end;   *)
(* the other handlers that share activeProcess and claudeSessionId with it  *)
(* (the desktop UI's execute and abort, the bridge being disabled) act on   *)
(* it from outside.  A reply of the reasoning backend is a sequence of      *)
(* tokens: "open" is the marker [EXECUTE], "close" the marker [/EXECUTE],   *)
(* " " white space and "x" any other text.                                  *)
(***************************************************************************)
MaxForeign == 1     \* execute requests of the desktop UI in one behaviour

AgentIds == 1..(MaxForeign + 2)

Replies ==
    {<<>>,
     <<"x">>,
     <<"open", "x", "close">>,
     <<"x", "open", " ", "x", " ", "close", "x">>,
     <<"open", " ", "close">>,
     <<"open", "close", "open", "x", "close">>,
     <<"open", "x">>,
     <<"close", "x", "open">>}

\* index of the first token tok at or after position i, 0 if there is none
RECURSIVE IndexFrom(_, _, _)
IndexFrom(s, tok, i) ==
    IF i > Len(s) THEN 0
    ELSE IF s[i] = tok THEN i
    ELSE IndexFrom(s, tok, i + 1)

\* text.match(/\[EXECUTE\]([\s\S]*?)\[\/EXECUTE\]/i): the positions of the two
\* markers of the leftmost, shortest match, <<>> when nothing matches
MatchExecute(text) ==
    LET i == IndexFrom(text, "open", 1)
        j == IF i = 0 THEN 0 ELSE IndexFrom(text, "close", i + 1)
    IN IF j = 0 THEN <<>> ELSE <<i, j>>

\* the value null; `cmd || null` turns the empty string into it
null == <<>>

extractCommand(text) ==
    LET match == MatchExecute(text)
    IN IF match = <<>> THEN null
       ELSE Trim(SubSeq(text, match[1] + 1, match[2] - 1))

\* MinimaxOrchestrator.chat: an empty reply (and any failure) carries no command
ChatCommand(reply) == IF reply = <<>> THEN null ELSE extractCommand(reply)

\* mutant: the loop goes on to executeCore whatever the reply holds
NoCommandIgnored(command) == FALSE

\* `if (!result.command) break`
NoCommand(command) == command = null

\* telegramBridge and orchestrator are null after 'code:disableTelegram'
BridgeGone == ~bridgeEnabled

MAX_HISTORY == 30

Entry(role, content) == [role |-> role, content |-> content]

\* mutant: the history is cut at its front, the newest entries are dropped
trimHistoryKeepOldest(msgs) ==
    IF Len(msgs) > MAX_HISTORY THEN SubSeq(msgs, 1, MAX_HISTORY) ELSE msgs

\* `if (length > MAX_HISTORY) messages = messages.slice(-MAX_HISTORY)`
trimHistory(msgs) ==
    IF Len(msgs) > MAX_HISTORY
    THEN SubSeq(msgs, Len(msgs) - MAX_HISTORY + 1, Len(msgs))
    ELSE msgs

\* chat() up to its fetch: the user message is pushed
PushUser(msgs, text) == trimHistory(Append(msgs, Entry("user", text)))

\* chat() after a reply that is not empty
PushAssistant(msgs, reply) == trimHistory(Append(msgs, Entry("assistant", reply)))

\* the text `[Claude Code ...]\n${summary}` of the summary of invocation k
ResultText(k) == <<"result", k>>

\* addCodeResult(summary)
addCodeResult(msgs, k) == trimHistory(Append(msgs, Entry("user", ResultText(k))))

\* the message from the chat that started the run
UserMessage == <<"msg", 0>>

\* pendingMessage: the user's message, later `[Claude Code ...]\n${summary}`
PendingMessage(r) == IF r.round = 0 THEN UserMessage ELSE ResultText(r.execs)

\* the history after `orchestrator.chat(pendingMessage)` was called
ChatCalled(msgs, r) == IF BridgeGone THEN msgs ELSE PushUser(msgs, PendingMessage(r))

NewRun ==
    [stage |-> "none", round |-> 0, command |-> null, wait |-> 0,
     chats |-> 0, execs |-> 0, spawns |-> 0, first |-> "none",
     every |-> TRUE, limit |-> FALSE, failed |-> FALSE]

\* a call on the null bridge or orchestrator throws: the run's promise rejects
Crashed(r) == [r EXCEPT !.stage = "crashed", !.wait = 0]

\* `round++; await orchestrator.chat(pendingMessage)`
CallChat(r) ==
    IF BridgeGone THEN Crashed(r)
    ELSE [r EXCEPT !.stage = "chat", !.round = @ + 1, !.chats = @ + 1]

\* after the loop: the round-limit announcement
AfterLoop(r) ==
    IF r.round >= MAX_ROUNDS
    THEN IF BridgeGone THEN Crashed(r)
         ELSE [r EXCEPT !.stage = "limit", !.limit = TRUE]
    ELSE [r EXCEPT !.stage = "done"]

\* executeCore's result has arrived: `await sendAssistantResponse(summary, ...)`
SummaryReceived(r) ==
    IF BridgeGone THEN Crashed(r)
    ELSE [r EXCEPT !.stage = "result", !.wait = 0]

NewAgent(id, src, skip, st) ==
    [id |-> id, src |-> src, useResume |-> UseResume(skip),
     sessionExpired |-> FALSE, st |-> st]

FreeIds == AgentIds \ {a.id : a \in agents}

FreshId == CHOOSE i \in FreeIds : \A j \in FreeIds : i <= j

supRest == <<lastTgCommandMsgId, currentWorkingDirectory, progressMsgId, procs,
             nextPid, calls, nextReq, expired, ret>>

\* handleOrchestratedChat from its entry to its first await
HandleOrchestratedChat ==
    /\ run.stage = "none"
    /\ bridgeEnabled
    /\ IF activeProcess # 0
       THEN /\ activeProcess' = 0
            /\ run' = [run EXCEPT !.stage = "pre"]
       ELSE /\ run' = CallChat(run)
            /\ UNCHANGED activeProcess
    /\ UNCHANGED <<claudeSessionId, bridgeEnabled, agents, foreign>>
    /\ messages' = IF activeProcess # 0 THEN messages ELSE ChatCalled(messages, run)
    /\ UNCHANGED <<supRest, sumVars, splitVars, progVars, pollVars, extVars>>

\* resumed after the preemption notice was sent
PreemptionSent ==
    /\ run.stage = "pre"
    /\ run' = CallChat(run)
    /\ UNCHANGED <<activeProcess, claudeSessionId, bridgeEnabled, agents, foreign>>
    /\ messages' = ChatCalled(messages, run)
    /\ UNCHANGED <<supRest, sumVars, splitVars, progVars, pollVars, extVars>>

\* how a call of the reasoning backend ends: "ok" with a reply (which may be
\* empty), "http" with a non-OK status and an error body, "throw" with fetch or
\* json() throwing; the text of the failure is then the reply
ChatOutcomes == {"ok", "http", "throw"}

\* the text of a failure: the error body may hold anything, markers included
FailureTexts == {<<"x">>, <<"open", "x", "close">>}

ChatFailed(reply, outcome) == outcome # "ok" \/ reply = <<>>

\* the command of chat()'s result: null on every failure path
ChatResultCommand(reply, outcome) ==
    IF outcome = "ok" THEN ChatCommand(reply) ELSE null

\* orchestrator.chat has returned: `await sendOrchestratorMessage(result.reply)`
ChatReturns(reply, outcome) ==
    /\ run.stage = "chat"
    /\ LET command == ChatResultCommand(reply, outcome)
           heard == [run EXCEPT !.command = command,
                               !.failed = ChatFailed(reply, outcome),
                               !.first = IF @ = "none"
                                         THEN IF command = null THEN "nocmd" ELSE "cmd"
                                         ELSE @,
                               !.every = @ /\ command # null]
       IN run' = IF BridgeGone THEN Crashed(heard)
                 ELSE [heard EXCEPT !.stage = "reply"]
    /\ UNCHANGED <<activeProcess, claudeSessionId, bridgeEnabled, agents, foreign>>
    /\ messages' = IF ChatFailed(reply, outcome) THEN messages
                   ELSE PushAssistant(messages, <<"reply", run.round>>)
    /\ UNCHANGED <<supRest, sumVars, splitVars, progVars, pollVars, extVars>>

\* the reply was sent: break, or `await sendUserCommand(result.command)`
ReplySent ==
    /\ run.stage = "reply"
    /\ run' = IF NoCommand(run.command) THEN AfterLoop(run)
              ELSE IF BridgeGone THEN Crashed(run)
              ELSE [run EXCEPT !.stage = "cmd"]
    /\ UNCHANGED <<activeProcess, claudeSessionId, bridgeEnabled, agents, foreign>>
    /\ UNCHANGED <<messages, supRest, sumVars, splitVars, progVars, pollVars, extVars>>

\* the command was announced: `await sendStatus(...)`
CommandSent ==
    /\ run.stage = "cmd"
    /\ run' = IF BridgeGone THEN Crashed(run) ELSE [run EXCEPT !.stage = "status"]
    /\ UNCHANGED <<activeProcess, claudeSessionId, bridgeEnabled, agents, foreign>>
    /\ UNCHANGED <<messages, supRest, sumVars, splitVars, progVars, pollVars, extVars>>

\* `await executeCore(result.command, {fromTelegram, collectOutput})`
\* outcome: "ok", "nodir" (existsSync fails) or "throws" (spawn throws)
RunExecuteCore(outcome) ==
    /\ run.stage = "status"
    /\ LET called == [run EXCEPT !.execs = @ + 1]
       IN IF Busy \/ outcome = "nodir"
          THEN /\ run' = SummaryReceived(called)
               /\ UNCHANGED <<activeProcess, agents>>
          ELSE IF outcome = "throws"
          THEN /\ run' = SummaryReceived(called)
               /\ activeProcess' = 0
               /\ UNCHANGED agents
          ELSE /\ FreeIds # {}
               /\ agents' = agents \cup {NewAgent(FreshId, "orch", FALSE, "run")}
               /\ activeProcess' = FreshId
               /\ run' = IF CollectOutput("orch")
                         THEN [called EXCEPT !.stage = "wait", !.wait = FreshId,
                                             !.spawns = @ + 1]
                         ELSE SummaryReceived([called EXCEPT !.spawns = @ + 1])
    /\ UNCHANGED <<claudeSessionId, bridgeEnabled, foreign>>
    /\ UNCHANGED <<messages, supRest, sumVars, splitVars, progVars, pollVars, extVars>>

\* the summary was sent: addCodeResult, then the next round or the end of the loop
ResultSent ==
    /\ run.stage = "result"
    /\ run' = IF BridgeGone THEN Crashed(run)
              ELSE IF run.round < MAX_ROUNDS THEN CallChat(run)
              ELSE AfterLoop(run)
    /\ UNCHANGED <<activeProcess, claudeSessionId, bridgeEnabled, agents, foreign>>
    /\ messages' = IF BridgeGone THEN messages
                   ELSE IF run.round < MAX_ROUNDS
                   THEN ChatCalled(addCodeResult(messages, run.execs), run)
                   ELSE addCodeResult(messages, run.execs)
    /\ UNCHANGED <<supRest, sumVars, splitVars, progVars, pollVars, extVars>>

\* the round-limit announcement was sent
LimitSent ==
    /\ run.stage = "limit"
    /\ run' = [run EXCEPT !.stage = "done"]
    /\ UNCHANGED <<activeProcess, claudeSessionId, bridgeEnabled, agents, foreign>>
    /\ UNCHANGED <<messages, supRest, sumVars, splitVars, progVars, pollVars, extVars>>

\* resolve(...) of the promise of agent a
Resolved(a, r) ==
    IF CollectOutput(a.src) /\ r.stage = "wait" /\ r.wait = a.id
    THEN SummaryReceived(r)
    ELSE r

\* stdout 'data' of agent a: "sid" carries session_id, "err" the expiry marker
AgentStdout(a, ev) ==
    /\ a \in agents
    /\ a.st = "run"
    /\ claudeSessionId' = IF ev = "sid" /\ claudeSessionId = 0 THEN InitTok
                          ELSE claudeSessionId
    /\ agents' = IF ev = "err" /\ a.useResume
                 THEN (agents \ {a}) \cup {[a EXCEPT !.sessionExpired = TRUE]}
                 ELSE agents
    /\ UNCHANGED <<activeProcess, bridgeEnabled, run, foreign>>
    /\ UNCHANGED <<messages, supRest, sumVars, splitVars, progVars, pollVars, extVars>>

\* stderr 'data' of agent a holding the expiry marker
AgentStderr(a) ==
    /\ a \in agents
    /\ a.st = "run"
    /\ a.useResume
    /\ agents' = (agents \ {a}) \cup {[a EXCEPT !.sessionExpired = TRUE]}
    /\ UNCHANGED <<activeProcess, claudeSessionId, bridgeEnabled, run, foreign>>
    /\ UNCHANGED <<messages, supRest, sumVars, splitVars, progVars, pollVars, extVars>>

\* 'close' of agent a; suspends: progressTracker.finish() has a message to delete.
\* What follows that await touches a variable of this model only when the
\* process collects its output (the resolve of line 1797).
AgentClose(a, suspends) ==
    /\ a \in agents
    /\ a.st = "run"
    /\ activeProcess' = 0
    /\ IF a.sessionExpired /\ a.useResume
       THEN /\ claudeSessionId' = 0
            /\ agents' = (agents \ {a}) \cup {[a EXCEPT !.st = "retry"]}
            /\ UNCHANGED run
       ELSE IF suspends /\ CollectOutput(a.src)
       THEN /\ agents' = (agents \ {a}) \cup {[a EXCEPT !.st = "closing"]}
            /\ UNCHANGED <<claudeSessionId, run>>
       ELSE /\ agents' = agents \ {a}
            /\ run' = Resolved(a, run)
            /\ UNCHANGED claudeSessionId
    /\ UNCHANGED <<bridgeEnabled, foreign>>
    /\ UNCHANGED <<messages, supRest, sumVars, splitVars, progVars, pollVars, extVars>>

\* close handler of agent a resumed after `await progressTracker.finish()`
AgentCloseFinish(a) ==
    /\ a \in agents
    /\ a.st = "closing"
    /\ agents' = agents \ {a}
    /\ run' = Resolved(a, run)
    /\ UNCHANGED <<activeProcess, claudeSessionId, bridgeEnabled, foreign>>
    /\ UNCHANGED <<messages, supRest, sumVars, splitVars, progVars, pollVars, extVars>>

\* close handler of agent a resumed at `executeCore(prompt, {_skipResume: true})`;
\* the process of the retry takes over the closure's place
AgentRetry(a, outcome) ==
    /\ a \in agents
    /\ a.st = "retry"
    /\ IF Busy \/ outcome = "nodir"
       THEN /\ agents' = agents \ {a}
            /\ run' = Resolved(a, run)
            /\ UNCHANGED activeProcess
       ELSE IF outcome = "throws"
       THEN /\ agents' = agents \ {a}
            /\ run' = Resolved(a, run)
            /\ activeProcess' = 0
       ELSE /\ agents' = (agents \ {a}) \cup {NewAgent(a.id, a.src, TRUE, "run")}
            /\ activeProcess' = a.id
            /\ run' = IF a.src = "orch" THEN [run EXCEPT !.spawns = @ + 1] ELSE run
    /\ UNCHANGED <<claudeSessionId, bridgeEnabled, foreign>>
    /\ UNCHANGED <<messages, supRest, sumVars, splitVars, progVars, pollVars, extVars>>

\* 'error' of agent a.  The handler touches no variable of this model before
\* its `await progressTracker.finish()`: the step is the segment after it.
AgentError(a) ==
    /\ a \in agents
    /\ a.st = "run"
    /\ agents' = agents \ {a}
    /\ activeProcess' = 0
    /\ run' = Resolved(a, run)
    /\ UNCHANGED <<claudeSessionId, bridgeEnabled, foreign>>
    /\ UNCHANGED <<messages, supRest, sumVars, splitVars, progVars, pollVars, extVars>>

\* 'code:execute' of the desktop UI accepted by the busy check
ForeignExecute ==
    /\ foreign < MaxForeign
    /\ ~Busy
    /\ FreeIds # {}
    /\ foreign' = foreign + 1
    /\ IF AwaitsSend("ui")
       THEN /\ agents' = agents \cup {NewAgent(FreshId, "ui", FALSE, "spawning")}
            /\ UNCHANGED activeProcess
       ELSE /\ agents' = agents \cup {NewAgent(FreshId, "ui", FALSE, "run")}
            /\ activeProcess' = FreshId
    /\ UNCHANGED <<claudeSessionId, bridgeEnabled, run>>
    /\ UNCHANGED <<messages, supRest, sumVars, splitVars, progVars, pollVars, extVars>>

\* that request resumed after `await telegramBridge.sendUserCommand(prompt)`
ForeignSpawn(a) ==
    /\ a \in agents
    /\ a.st = "spawning"
    /\ agents' = (agents \ {a}) \cup {[a EXCEPT !.st = "run"]}
    /\ activeProcess' = a.id
    /\ UNCHANGED <<claudeSessionId, bridgeEnabled, run, foreign>>
    /\ UNCHANGED <<messages, supRest, sumVars, splitVars, progVars, pollVars, extVars>>

\* 'code:abort' of the desktop UI with a process to abort
ForeignAbort ==
    /\ activeProcess # 0
    /\ activeProcess' = 0
    /\ UNCHANGED <<claudeSessionId, bridgeEnabled, run, agents, foreign>>
    /\ UNCHANGED <<messages, supRest, sumVars, splitVars, progVars, pollVars, extVars>>

\* 'code:disableTelegram' after its farewell message was sent
DisableTelegram ==
    /\ bridgeEnabled
    /\ bridgeEnabled' = FALSE
    /\ UNCHANGED <<activeProcess, claudeSessionId, run, agents, foreign>>
    /\ messages' = <<>>
    /\ UNCHANGED <<supRest, sumVars, splitVars, progVars, pollVars, extVars>>

OrchIdle ==
    /\ run = NewRun
    /\ messages = <<>>
    /\ agents = {}
    /\ foreign = 0

(***************************************************************************)
(* TelegramCodeBridge: startPolling, syncPendingUpdates, poll and           *)
(* dispatchMessage                                                          *)
(*                                                                         *)
(* The chat server keeps the updates it has created; the identifier of an   *)
(* update is its position.  A getUpdates call answers with every update     *)
(* whose identifier is at least the offset it was sent with.  A message     *)
(* text is a sequence of tokens: "/code" the five characters of the         *)
(* command prefix, "/" a slash, " " and "\n" white space, "x" other text.   *)
(***************************************************************************)
MaxUpdates == 2     \* updates the chat server creates in one behaviour
MaxFetches == 2     \* getUpdates calls in flight at the same time

BotId == 1
UserId == 2

\* from: 0 when the message has no sender; text: <<>> when it has no text
Update(text, ours, from) == [text |-> text, ours |-> ours, from |-> from]

UpdateContents ==
    {Update(<<"x">>, TRUE, UserId),
     Update(<<"/code", " ", "x">>, TRUE, UserId),
     Update(<<"x">>, TRUE, BotId),
     Update(<<"/code", NL, "x">>, TRUE, BotId),
     Update(<<>>, TRUE, UserId),
     Update(<<"x">>, FALSE, UserId),
     Update(<<"/", "x", " ">>, TRUE, 0)}

\* a callback invocation, or none
Call(callback, arg) == [callback |-> callback, arg |-> arg]

NoCall == Call("none", <<>>)

\* mutant: the remainder of a command is passed on as it stands
CommandUntrimmed(text) == SubSeq(text, 3, Len(text))

\* `text.slice(6).trim()`: "/code" and the separator are six characters
CommandOf(text) == Trim(SubSeq(text, 3, Len(text)))

\* dispatchMessage(text): the callback the text is routed to and its argument
dispatchMessage(text) ==
    IF text = <<>> THEN NoCall
    ELSE IF Len(text) >= 2 /\ text[1] = "/code" /\ text[2] \in Whitespace
    THEN IF CommandOf(text) # <<>> /\ onCommand
         THEN Call("onCommand", CommandOf(text)) ELSE NoCall
    ELSE IF text[1] \in {"/", "/code"} THEN NoCall
    ELSE IF onChat THEN Call("onChat", text)
    ELSE NoCall

\* mutant: the sender of an update is never compared with the bot's identity
FromSelfIgnored(u) == FALSE

\* `this.botUserId && msg.from?.id === this.botUserId`
FromSelf(u) == botUserId # 0 /\ u.from = botUserId

\* mutant: the chat of an update is never compared with the configured chat
OtherChatAccepted(u) == FALSE

\* `String(msg.chat.id) !== String(this.chatId)`; `ours` of an update says
\* whether it was posted to the configured chat
OtherChat(u) == ~u.ours

\* the callback one update of a batch ends in
Dispatch(u) ==
    IF u.text = <<>> THEN "none"
    ELSE IF OtherChat(u) THEN "none"
    ELSE IF FromSelf(u) THEN "none"
    ELSE dispatchMessage(Trim(u.text)).callback

\* mutant: only an update that carries a text moves the cursor
CursorAfterText(cursor, id, u) ==
    IF u.text = <<>> \/ cursor >= id THEN cursor ELSE id

\* `this.lastUpdateId = Math.max(this.lastUpdateId, update.update_id)`
CursorAfter(cursor, id, u) == Max(cursor, id)

\* the answer to getUpdates(offset): identifiers of the updates returned
Batch(offset) == {i \in 1..Len(updates) : i >= offset}

\* the cursor after the loop over the updates from..to
RECURSIVE CursorAfterBatch(_, _, _)
CursorAfterBatch(cursor, from, to) ==
    IF from > to THEN cursor
    ELSE CursorAfterBatch(CursorAfter(cursor, from, updates[from]), from + 1, to)

Dispatched(offset) ==
    {[id |-> i, callback |-> Dispatch(updates[i]), from |-> updates[i].from,
      bot |-> botUserId] : i \in {j \in Batch(offset) : Dispatch(updates[j]) # "none"}}

FreeFetch == (1..MaxFetches) \ {f.n : f \in fetches}

\* getUpdates sent with offset lastUpdateId + 1
Fetch(kind) ==
    [n |-> CHOOSE i \in FreeFetch : \A j \in FreeFetch : i <= j,
     kind |-> kind, offset |-> lastUpdateId + 1]

\* startPolling up to `await this.syncPendingUpdates()`; chatCallback: onChat given
StartPollingStep(chatCallback) ==
    /\ ~started
    /\ started' = TRUE
    /\ onCommand' = TRUE
    /\ onChat' = chatCallback
    /\ fetches' = IF botToken THEN fetches \cup {Fetch("sync")} ELSE fetches
    /\ pollInterval' = IF botToken THEN pollInterval ELSE TRUE
    /\ UNCHANGED <<botToken, botUserId, lastUpdateId, updates, seen, dispatched,
                   redelivered>>

StartPolling(chatCallback) ==
    /\ StartPollingStep(chatCallback)
    /\ UNCHANGED <<supVars, sumVars, splitVars, progVars, orchVars, extVars>>

\* the interval timer fires: poll() up to its fetch
PollTickStep ==
    /\ pollInterval
    /\ botToken
    /\ FreeFetch # {}
    /\ fetches' = fetches \cup {Fetch("poll")}
    /\ UNCHANGED <<botToken, botUserId, lastUpdateId, pollInterval, onCommand, onChat, started,
                   updates, seen, dispatched, redelivered>>

PollTick ==
    /\ PollTickStep
    /\ UNCHANGED <<supVars, sumVars, splitVars, progVars, orchVars, extVars>>

\* a getUpdates call returns; ok: the answer is {ok: true, result: [...]}
\* syncPendingUpdates and poll run the same loop; startPolling then sets the timer
FetchAnswered(f, ok, offset) ==
    /\ f \in fetches
    /\ fetches' = fetches \ {f}
    /\ IF ok
       THEN /\ lastUpdateId' = CursorAfterBatch(lastUpdateId, offset, Len(updates))
            /\ seen' = seen \cup Batch(offset)
            /\ dispatched' = dispatched \cup Dispatched(offset)
            /\ redelivered' = redelivered \cup
                   {d.id : d \in {e \in Dispatched(offset) :
                                     \E o \in dispatched : o.id = e.id}}
       ELSE UNCHANGED <<lastUpdateId, seen, dispatched, redelivered>>
    /\ pollInterval' = IF f.kind = "sync" THEN TRUE ELSE pollInterval
    /\ UNCHANGED <<botToken, botUserId, onCommand, onChat, started, updates>>

FetchReturns(f, ok) ==
    /\ FetchAnswered(f, ok, f.offset)
    /\ UNCHANGED <<supVars, sumVars, splitVars, progVars, orchVars, extVars>>

\* somebody (or the bot itself) posts to a chat the bot can see
NewUpdateStep(u) ==
    /\ Len(updates) < MaxUpdates
    /\ updates' = Append(updates, u)
    /\ UNCHANGED <<botToken, botUserId, lastUpdateId, pollInterval, onCommand, onChat, started,
                   fetches, seen, dispatched, redelivered>>

NewUpdate(u) ==
    /\ NewUpdateStep(u)
    /\ UNCHANGED <<supVars, sumVars, splitVars, progVars, orchVars, extVars>>

\* destroy(): stopPolling and the credentials forgotten
DestroyStep ==
    /\ botToken
    /\ botToken' = FALSE
    /\ botUserId' = 0
    /\ pollInterval' = FALSE
    /\ onCommand' = FALSE
    /\ onChat' = FALSE
    /\ UNCHANGED <<lastUpdateId, started, fetches, updates, seen, dispatched,
                   redelivered>>

Destroy ==
    /\ DestroyStep
    /\ UNCHANGED <<supVars, sumVars, splitVars, progVars, orchVars, extVars>>

PollIdle ==
    /\ botToken = FALSE
    /\ botUserId = 0
    /\ lastUpdateId = 0
    /\ pollInterval = FALSE
    /\ onCommand = FALSE
    /\ onChat = FALSE
    /\ started = FALSE
    /\ fetches = {}
    /\ updates = <<>>
    /\ seen = {}
    /\ dispatched = {}
    /\ redelivered = {}

(***************************************************************************)
(* dispatchMessage on its own: every text of up to MaxTextLen tokens, as    *)
(* the two fetch loops pass it on (`this.dispatchMessage(msg.text.trim())`) *)
(***************************************************************************)
MaxTextLen == 4     \* tokens of one message text

TextTokens == {"/code", "/", " ", NL, "x"}

MessageTexts == UNION {[1..n -> TextTokens] : n \in 1..MaxTextLen}

NotDispatched == Call("pending", <<>>)

DispIdle ==
    /\ dispText = <<>>
    /\ dispOut = NotDispatched

\* one message text of a fetched update handed to dispatchMessage
DispatchMessage ==
    /\ dispOut = NotDispatched
    /\ dispOut' = dispatchMessage(Trim(dispText))
    /\ UNCHANGED dispText
    /\ UNCHANGED <<supVars, sumVars, splitVars, progVars, orchVars, pollVars,
                   enableVars, stepVars, histVars, storeVars, serverVars,
                   resetVars, chunkVars>>

(***************************************************************************)
(* ipcMain.handle('code:enableTelegram') and TelegramCodeBridge.init        *)
(*                                                                         *)
(* Call c of the handler creates bridge c.  The handler is suspended at     *)
(* `await telegramBridge.init(...)` (two verification requests), at         *)
(* `await orchestrator.init()` and at `await telegramBridge.startPolling`   *)
(* (the catch-up fetch); other calls of the handler run in between.         *)
(***************************************************************************)
MaxEnables == 2     \* calls of the enable handler in one behaviour

EnableCalls == 1..MaxEnables

\* what the chat server makes of the credentials of one call
Credentials == {"ok", "badtoken", "badchat", "empty"}

Answers == {"ok", "fail", "throw"}

NoBridge ==
    [init |-> "none", creds |-> "ok", botToken |-> FALSE, tokenSent |-> FALSE,
     enabled |-> FALSE, onCommand |-> FALSE, intervals |-> 0]

NoEnable == [stage |-> "idle", target |-> 0]

\* destroy() of the bridge telegramBridge refers to: stopPolling clears the one
\* interval pollInterval refers to
Destroyed(bs) ==
    IF telegramBridge = 0 THEN bs
    ELSE [bs EXCEPT ![telegramBridge].enabled = FALSE,
                    ![telegramBridge].botToken = FALSE,
                    ![telegramBridge].onCommand = FALSE,
                    ![telegramBridge].intervals = IF @ > 0 THEN @ - 1 ELSE 0]

\* `if (!initResult.success) { telegramBridge = null; return initResult; }`
InitFailed(c) ==
    /\ bridges' = [bridges EXCEPT ![c].init = "failed"]
    /\ telegramBridge' = 0
    /\ enableCalls' = [enableCalls EXCEPT ![c].stage = "failed"]

\* the handler from its entry to the first request of init (getMe)
EnableTelegram(c, creds) ==
    /\ enableCalls[c].stage = "idle"
    /\ \A d \in EnableCalls : d < c => enableCalls[d].stage # "idle"
    /\ IF creds = "empty"
       THEN /\ bridges' = [Destroyed(bridges) EXCEPT
                              ![c] = [NoBridge EXCEPT !.init = "failed",
                                                      !.creds = creds]]
            /\ telegramBridge' = 0
            /\ enableCalls' = [enableCalls EXCEPT ![c].stage = "failed"]
       ELSE /\ bridges' = [Destroyed(bridges) EXCEPT
                              ![c] = [NoBridge EXCEPT !.init = "getMe",
                                                      !.creds = creds,
                                                      !.botToken = TRUE,
                                                      !.tokenSent = TRUE]]
            /\ telegramBridge' = c
            /\ enableCalls' = [enableCalls EXCEPT ![c].stage = "init"]
    /\ UNCHANGED <<supVars, sumVars, splitVars, progVars, orchVars, pollVars, dispVars, stepVars,
                   histVars, storeVars, serverVars,
                   resetVars, chunkVars>>

\* getMe returns: failure, or the second request (sendChatAction) is sent with
\* the token the bridge holds now
GetMeReturns(c, answer) ==
    /\ bridges[c].init = "getMe"
    /\ answer = "ok" => (bridges[c].tokenSent /\ bridges[c].creds # "badtoken")
    /\ IF answer = "ok"
       THEN /\ bridges' = [bridges EXCEPT ![c].init = "chatAction",
                                          ![c].tokenSent = bridges[c].botToken]
            /\ UNCHANGED <<telegramBridge, enableCalls>>
       ELSE InitFailed(c)
    /\ UNCHANGED <<supVars, sumVars, splitVars, progVars, orchVars, pollVars, dispVars, stepVars,
                   histVars, storeVars, serverVars,
                   resetVars, chunkVars>>

\* sendChatAction returns: init ends, the handler goes on to orchestrator.init()
ChatActionReturns(c, answer) ==
    /\ bridges[c].init = "chatAction"
    /\ answer = "ok" => (bridges[c].tokenSent /\ bridges[c].creds = "ok")
    /\ IF answer = "ok"
       THEN /\ bridges' = [bridges EXCEPT ![c].init = "ok", ![c].enabled = TRUE]
            /\ enableCalls' = [enableCalls EXCEPT
                                  ![c].stage = IF telegramBridge = 0
                                               THEN "cancelled" ELSE "orch"]
            /\ UNCHANGED telegramBridge
       ELSE InitFailed(c)
    /\ UNCHANGED <<supVars, sumVars, splitVars, progVars, orchVars, pollVars, dispVars, stepVars,
                   histVars, storeVars, serverVars,
                   resetVars, chunkVars>>

\* orchestrator.init() returns: `await telegramBridge.startPolling({...})` on the
\* bridge telegramBridge refers to now
OrchInitReturns(c) ==
    /\ enableCalls[c].stage = "orch"
    /\ UNCHANGED telegramBridge
    /\ IF telegramBridge = 0
       THEN /\ enableCalls' = [enableCalls EXCEPT ![c].stage = "thrown"]
            /\ UNCHANGED bridges
       ELSE LET b == telegramBridge
            IN IF bridges[b].intervals > 0
               THEN /\ bridges' = [bridges EXCEPT ![b].onCommand = TRUE]
                    /\ enableCalls' = [enableCalls EXCEPT ![c].stage = "done"]
               ELSE IF bridges[b].botToken
               THEN /\ bridges' = [bridges EXCEPT ![b].onCommand = TRUE]
                    /\ enableCalls' = [enableCalls EXCEPT ![c].stage = "sync",
                                                          ![c].target = b]
               ELSE /\ bridges' = [bridges EXCEPT ![b].onCommand = TRUE,
                                                  ![b].intervals = @ + 1]
                    /\ enableCalls' = [enableCalls EXCEPT ![c].stage = "done"]
    /\ UNCHANGED <<supVars, sumVars, splitVars, progVars, orchVars, pollVars, dispVars, stepVars,
                   histVars, storeVars, serverVars,
                   resetVars, chunkVars>>

\* the catch-up fetch of startPolling returns: setInterval, then the status message
SyncReturns(c) ==
    /\ enableCalls[c].stage = "sync"
    /\ bridges' = [bridges EXCEPT ![enableCalls[c].target].intervals = @ + 1]
    /\ enableCalls' = [enableCalls EXCEPT ![c].stage = "done"]
    /\ UNCHANGED telegramBridge
    /\ UNCHANGED <<supVars, sumVars, splitVars, progVars, orchVars, pollVars, dispVars, stepVars,
                   histVars, storeVars, serverVars,
                   resetVars, chunkVars>>

EnableIdle ==
    /\ bridges = [c \in EnableCalls |-> NoBridge]
    /\ enableCalls = [c \in EnableCalls |-> NoEnable]
    /\ telegramBridge = 0

(***************************************************************************)
(* The step list of one tracker over a long stream of tool events           *)
(***************************************************************************)
MaxAppended == 10   \* tool_use events of one stream

\* the tool events the process can print next; the label of a tool_use is new
StepEvents ==
    {[type |-> "tool_use", snippet |-> FALSE, tool |-> x] :
        x \in {y \in 1..MaxAppended : y = Len(appended) + 1}}
    \cup {[type |-> "tool_result", snippet |-> FALSE, tool |-> 0]}

\* stdout handler: one parsed tool event goes to the tracker
StepEvent(ev) ==
    /\ ev \in StepEvents
    /\ tracker' = onStreamEvent(tracker, ev)
    /\ appended' = IF ev.type = "tool_use" /\ ~tracker.finished
                   THEN Append(appended, ev.tool) ELSE appended
    /\ UNCHANGED <<now, progress, flights, chat, nextMsg, nEvents, toolsUsed,
                   lastCallMs, deleteRequested>>
    /\ UNCHANGED <<supVars, sumVars, splitVars, orchVars, pollVars, dispVars,
                   enableVars, histVars, storeVars, serverVars,
                   resetVars, chunkVars>>

StepIdle == appended = <<>>

(***************************************************************************)
(* One MinimaxOrchestrator under any sequence of calls of chat,             *)
(* addCodeResult and clearHistory.  The text of an entry is its serial      *)
(* number, so every entry differs from every other.                         *)
(***************************************************************************)
MaxHistoryOps == 4   \* calls of chat, addCodeResult and clearHistory

\* the history of n / 2 chats that were answered, and one that was not if n is odd
EarlierHistory(n) ==
    [i \in 1..n |-> Entry(IF i % 2 = 1 THEN "user" ELSE "assistant", <<"n", i>>)]

\* the lengths the history starts with: empty, one below the cap, at the cap
EarlierLengths == {0, MAX_HISTORY - 1, MAX_HISTORY}

NewHistoryLog(n) ==
    [pushed |-> EarlierHistory(n), serial |-> n, ops |-> 0, waiting |-> 0]

histRest == <<run, agents, foreign, supVars, sumVars, splitVars, progVars, pollVars,
              dispVars, enableVars, stepVars, storeVars, serverVars,
                   resetVars, chunkVars>>

\* chat(userMessage) up to its fetch
HistoryChat ==
    /\ historyLog.ops < MaxHistoryOps
    /\ LET k == historyLog.serial + 1
       IN /\ messages' = PushUser(messages, <<"n", k>>)
          /\ historyLog' = [historyLog EXCEPT
                               !.pushed = Append(@, Entry("user", <<"n", k>>)),
                               !.serial = k, !.ops = @ + 1, !.waiting = @ + 1]
    /\ UNCHANGED histRest

\* the fetch of a chat call returns: a reply is pushed, a failure is not
HistoryChatReturns(reply, outcome) ==
    /\ historyLog.waiting > 0
    /\ LET k == historyLog.serial + 1
       IN IF ChatFailed(reply, outcome)
          THEN /\ historyLog' = [historyLog EXCEPT !.waiting = @ - 1]
               /\ UNCHANGED messages
          ELSE /\ messages' = PushAssistant(messages, <<"n", k>>)
               /\ historyLog' = [historyLog EXCEPT
                                    !.pushed = Append(@, Entry("assistant", <<"n", k>>)),
                                    !.serial = k, !.waiting = @ - 1]
    /\ UNCHANGED histRest

\* addCodeResult(summary)
HistoryAddCodeResult ==
    /\ historyLog.ops < MaxHistoryOps
    /\ LET k == historyLog.serial + 1
       IN /\ messages' = addCodeResult(messages, k)
          /\ historyLog' = [historyLog EXCEPT
                               !.pushed = Append(@, Entry("user", ResultText(k))),
                               !.serial = k, !.ops = @ + 1]
    /\ UNCHANGED histRest

\* clearHistory()
HistoryClear ==
    /\ historyLog.ops < MaxHistoryOps
    /\ messages' = <<>>
    /\ historyLog' = [historyLog EXCEPT !.pushed = <<>>, !.ops = @ + 1]
    /\ UNCHANGED histRest

HistIdle == historyLog = NewHistoryLog(0)

(***************************************************************************)
(* The desktop UI's store (stores/code.ts) while chat messages are handled  *)
(*                                                                         *)
(* The main process forwards a chat message to the window as                *)
(* 'code:telegram-command' and the events of a process as 'code:output';    *)
(* the store's isRunning flag is set by the first and cleared by the 'exit' *)
(* and 'error' chunks of the second.  One chat message is handled at a      *)
(* time: `forwarded` is the position of its handler.                        *)
(***************************************************************************)
MaxForwarded == 4   \* chat messages handled in one behaviour

NoForwarded == [kind |-> "none", stage |-> "idle", round |-> 0, n |-> 0]

\* the orchestration loop after a round that called executeCore
NextRound(f) ==
    IF f.kind = "orch" /\ f.round < MAX_ROUNDS
    THEN [f EXCEPT !.stage = "chat", !.round = @ + 1]
    ELSE [f EXCEPT !.stage = "idle"]

\* onCommand: the command is forwarded to the window, then executeCore is called
StoreTelegramCommand ==
    /\ forwarded.stage = "idle"
    /\ forwarded.n < MaxForwarded
    /\ isRunning' = TRUE
    /\ forwarded' = [kind |-> "tg", stage |-> "exec", round |-> 0, n |-> forwarded.n + 1]
    /\ UNCHANGED <<supVars, sumVars, splitVars, progVars, orchVars, pollVars,
                   dispVars, enableVars, stepVars, histVars, serverVars,
                   resetVars, chunkVars>>

\* handleOrchestratedChat: the message is forwarded, then the first chat() call
StoreOrchestratedChat ==
    /\ forwarded.stage = "idle"
    /\ forwarded.n < MaxForwarded
    /\ isRunning' = TRUE
    /\ forwarded' = [kind |-> "orch", stage |-> "chat", round |-> 1, n |-> forwarded.n + 1]
    /\ UNCHANGED <<supVars, sumVars, splitVars, progVars, orchVars, pollVars,
                   dispVars, enableVars, stepVars, histVars, serverVars,
                   resetVars, chunkVars>>

\* chat() has returned: break, or the command is forwarded and executeCore called
StoreChatReturns(reply) ==
    /\ forwarded.stage = "chat"
    /\ IF NoCommand(ChatCommand(reply))
       THEN /\ forwarded' = [forwarded EXCEPT !.stage = "idle"]
            /\ UNCHANGED isRunning
       ELSE /\ forwarded' = [forwarded EXCEPT !.stage = "exec"]
            /\ isRunning' = TRUE
    /\ UNCHANGED <<supVars, sumVars, splitVars, progVars, orchVars, pollVars,
                   dispVars, enableVars, stepVars, histVars, serverVars,
                   resetVars, chunkVars>>

\* executeCore: a process is spawned, or a failure is returned to the handler
StoreExecuteCore(outcome) ==
    /\ forwarded.stage = "exec"
    /\ forwarded' = IF outcome = "ok" THEN [forwarded EXCEPT !.stage = "proc"]
                    ELSE NextRound(forwarded)
    /\ UNCHANGED isRunning
    /\ UNCHANGED <<supVars, sumVars, splitVars, progVars, orchVars, pollVars,
                   dispVars, enableVars, stepVars, histVars, serverVars,
                   resetVars, chunkVars>>

\* the process closes or emits 'error': handleOutput gets the 'exit' or 'error'
\* chunk, and the handler of the chat message goes on
StoreProcessExit ==
    /\ forwarded.stage = "proc"
    /\ isRunning' = FALSE
    /\ forwarded' = NextRound(forwarded)
    /\ UNCHANGED <<supVars, sumVars, splitVars, progVars, orchVars, pollVars,
                   dispVars, enableVars, stepVars, histVars, serverVars,
                   resetVars, chunkVars>>

StoreIdle ==
    /\ isRunning = FALSE
    /\ forwarded = NoForwarded

(***************************************************************************)
(* Bridge instances one after the other ('code:disableTelegram',            *)
(* 'code:enableTelegram') against a chat server that confirms by offset: a  *)
(* getUpdates call answers with the updates at or above the largest offset  *)
(* the server has been sent so far.                                         *)
(***************************************************************************)
MaxReconnects == 1  \* bridge instances created after the first

\* the lower bound of the answer to a call sent with `offset`
Served(offset) == Max(offset, confirmed)

ServedStartPolling(chatCallback) ==
    /\ FreeFetch # {}
    /\ StartPollingStep(chatCallback)
    /\ confirmed' = IF botToken THEN Max(confirmed, lastUpdateId + 1) ELSE confirmed
    /\ UNCHANGED <<reconnects, earlier, again>>
    /\ UNCHANGED <<supVars, sumVars, splitVars, progVars, orchVars, dispVars,
                   enableVars, stepVars, histVars, storeVars,
                   resetVars, chunkVars>>

ServedPollTick ==
    /\ PollTickStep
    /\ confirmed' = Max(confirmed, lastUpdateId + 1)
    /\ UNCHANGED <<reconnects, earlier, again>>
    /\ UNCHANGED <<supVars, sumVars, splitVars, progVars, orchVars, dispVars,
                   enableVars, stepVars, histVars, storeVars,
                   resetVars, chunkVars>>

\* a call of the current bridge instance returns
ServedFetchReturns(f, ok) ==
    /\ f.kind # "old"
    /\ FetchAnswered(f, ok, Served(f.offset))
    /\ again' = IF ok
                THEN again \cup {d.id : d \in {e \in Dispatched(Served(f.offset)) :
                                                 e.id \in earlier}}
                ELSE again
    /\ UNCHANGED <<confirmed, reconnects, earlier>>
    /\ UNCHANGED <<supVars, sumVars, splitVars, progVars, orchVars, dispVars,
                   enableVars, stepVars, histVars, storeVars,
                   resetVars, chunkVars>>

\* a call of a destroyed instance returns: its loop finds both callbacks null
OldFetchReturns(f) ==
    /\ f \in fetches
    /\ f.kind = "old"
    /\ fetches' = fetches \ {f}
    /\ UNCHANGED <<botToken, botUserId, lastUpdateId, pollInterval, onCommand, onChat,
                   started, updates, seen, dispatched, redelivered>>
    /\ UNCHANGED serverVars
    /\ UNCHANGED <<supVars, sumVars, splitVars, progVars, orchVars, dispVars,
                   enableVars, stepVars, histVars, storeVars,
                   resetVars, chunkVars>>

ServedNewUpdate(u) ==
    /\ NewUpdateStep(u)
    /\ UNCHANGED serverVars
    /\ UNCHANGED <<supVars, sumVars, splitVars, progVars, orchVars, dispVars,
                   enableVars, stepVars, histVars, storeVars,
                   resetVars, chunkVars>>

\* 'code:disableTelegram': the bridge is destroyed
Disconnect ==
    /\ DestroyStep
    /\ UNCHANGED serverVars
    /\ UNCHANGED <<supVars, sumVars, splitVars, progVars, orchVars, dispVars,
                   enableVars, stepVars, histVars, storeVars,
                   resetVars, chunkVars>>

\* 'code:enableTelegram' after a disable: `new TelegramCodeBridge()` starts
\* with lastUpdateId 0 and init() succeeds
Reconnect(bot) ==
    /\ ~botToken
    /\ reconnects < MaxReconnects
    /\ reconnects' = reconnects + 1
    /\ botToken' = TRUE
    /\ botUserId' = bot
    /\ lastUpdateId' = 0
    /\ pollInterval' = FALSE
    /\ onCommand' = FALSE
    /\ onChat' = FALSE
    /\ started' = FALSE
    /\ fetches' = {[f EXCEPT !.kind = "old"] : f \in fetches}
    /\ earlier' = {d.id : d \in dispatched}
    /\ UNCHANGED <<updates, seen, dispatched, redelivered, confirmed, again>>
    /\ UNCHANGED <<supVars, sumVars, splitVars, progVars, orchVars, dispVars,
                   enableVars, stepVars, histVars, storeVars,
                   resetVars, chunkVars>>

ServerIdle ==
    /\ confirmed = 0
    /\ reconnects = 0
    /\ earlier = {}
    /\ again = {}

(***************************************************************************)
(* 'code:resetSession' while the desktop UI runs invocations                *)
(***************************************************************************)
\* the handler up to `await setSetting('codeSessionId', '')`; no bridge, so
\* there is no orchestrator whose history it would clear
ResetSession ==
    /\ claudeSessionId' = 0
    /\ resetPid' = nextPid
    /\ UNCHANGED <<activeProcess, lastTgCommandMsgId, currentWorkingDirectory,
                   bridgeEnabled, progressMsgId, procs, nextPid, calls, nextReq,
                   expired, ret>>
    /\ UNCHANGED chunkVars
    /\ UNCHANGED <<sumVars, splitVars, progVars, orchVars, pollVars, dispVars,
                   enableVars, stepVars, histVars, storeVars, serverVars>>

ResetIdle == resetPid = 0

(***************************************************************************)
(* The stdout 'data' handlers (executeCore and the store's handleOutput):   *)
(* each chunk is split at "\n" and every piece is trimmed and parsed on its *)
(* own.  A text is a sequence of tokens: "{" and "}" open and close a JSON  *)
(* object, a token of EventKinds is its body, NL ends a line.               *)
(***************************************************************************)
MaxStreamLines == 2   \* lines one process writes

EventKinds == {"sid", "err", "prog"}

\* one complete line of stream-json output
EventLine(kind) == <<"{", kind, "}", NL>>

StreamTexts ==
    {<<>>} \cup {EventLine(k) : k \in EventKinds}
    \cup (IF MaxStreamLines > 1
          THEN {EventLine(k) \o EventLine(l) : k, l \in EventKinds}
          ELSE {})
    \cup (IF MaxStreamLines > 2
          THEN {EventLine(k) \o EventLine(l) \o EventLine("prog") : k, l \in EventKinds}
          ELSE {})

\* `text.split('\n')`
RECURSIVE splitLines(_)
splitLines(text) ==
    IF \A i \in 1..Len(text) : text[i] # NL THEN <<text>>
    ELSE LET i == CHOOSE j \in 1..Len(text) :
                      text[j] = NL /\ \A k \in 1..(j - 1) : text[k] # NL
         IN  <<SubSeq(text, 1, i - 1)>> \o splitLines(SubSeq(text, i + 1, Len(text)))

\* `JSON.parse(line.trim())` inside try/catch: the event of a line, if it is one
parseLine(line) ==
    LET t == Trim(line)
    IN  IF Len(t) = 3 /\ t[1] = "{" /\ t[3] = "}" /\ t[2] \in EventKinds
        THEN <<t[2]>> ELSE <<>>

RECURSIVE parseLines(_)
parseLines(lines) ==
    IF lines = <<>> THEN <<>>
    ELSE parseLine(Head(lines)) \o parseLines(Tail(lines))

\* the events one call of the handler decodes from its chunk
decodeChunk(text) == parseLines(splitLines(text))

\* stdout 'data' with the next n tokens of the stream as its chunk
StdoutData(n) ==
    /\ n \in 1..Len(stream)
    /\ stream' = SubSeq(stream, n + 1, Len(stream))
    /\ received' = received \o SubSeq(stream, 1, n)
    /\ decoded' = decoded \o decodeChunk(SubSeq(stream, 1, n))
    /\ UNCHANGED resetVars
    /\ UNCHANGED <<supVars, sumVars, splitVars, progVars, orchVars, pollVars, dispVars,
                   enableVars, stepVars, histVars, storeVars, serverVars>>

ChunkIdle ==
    /\ stream = <<>>
    /\ received = <<>>
    /\ decoded = <<>>

ExtIdle ==
    /\ DispIdle /\ EnableIdle /\ StepIdle /\ HistIdle /\ StoreIdle /\ ServerIdle
    /\ ResetIdle /\ ChunkIdle

AuxIdle == ProgIdle /\ OrchIdle /\ PollIdle /\ ExtIdle

(***************************************************************************)
(* The supervisor as a state machine                                        *)
(***************************************************************************)

Init ==
    /\ activeProcess = 0
    /\ claudeSessionId \in {0, InitTok}
    /\ lastTgCommandMsgId = 0
    /\ currentWorkingDirectory = 0
    /\ bridgeEnabled \in BOOLEAN
    /\ progressMsgId = FALSE
    /\ procs = [p \in Pids |-> NoProc]
    /\ nextPid = 1
    /\ calls = {}
    /\ nextReq = 1
    /\ expired = {}
    /\ ret = NoRet
    /\ SumIdle
    /\ SplitIdle
    /\ AuxIdle

Next ==
    \/ \E d \in Dirs, e, t \in BOOLEAN : UIExecute(d, e, t)
    \/ \E c \in calls, t \in BOOLEAN : ExecAfterSend(c, t)
    \/ Abort
    \/ TgCommand
    \/ \E c \in calls : TgSent(c)
    \/ OrchChat
    \/ \E c \in calls, h \in BOOLEAN : OrchReply(c, h)
    \/ \E c \in calls, e, t \in BOOLEAN : ExecuteCoreCall(c, e, t)
    \/ \E p \in Pids, ev \in {"sid", "err", "prog"} : Stdout(p, ev)
    \/ \E p \in Pids : Stderr(p)
    \/ \E p \in Pids : Close(p)
    \/ \E p \in Pids : CloseFinish(p)
    \/ \E p \in Pids, e, t \in BOOLEAN : Retry(p, e, t)
    \/ \E p \in Pids : Error(p)
    \/ \E p \in Pids : ErrorFinish(p)

Spec == Init /\ [][Next]_vars

\* the configuration without a bridge: only the desktop UI drives the supervisor
InitUI == Init /\ ~bridgeEnabled

NextUI ==
    \/ \E d \in Dirs, e, t \in BOOLEAN : UIExecute(d, e, t)
    \/ Abort
    \/ \E p \in Pids, ev \in {"sid", "err", "prog"} : Stdout(p, ev)
    \/ \E p \in Pids : Stderr(p)
    \/ \E p \in Pids : Close(p)
    \/ \E p \in Pids, e, t \in BOOLEAN : Retry(p, e, t)
    \/ \E p \in Pids : Error(p)

SpecUI == InitUI /\ [][NextUI]_vars

(***************************************************************************)
(* Properties of the supervisor                                             *)
(***************************************************************************)
SharedState == <<activeProcess, claudeSessionId, lastTgCommandMsgId>>

\* C1: at most one subprocess started by executeCore is alive (spawned and not
\* yet closed) in every reachable state.
AtMostOneAlive == Cardinality({p \in Pids : Alive(p)}) <= 1

\* C2: an execute request rejected as busy spawns nothing and leaves the busy
\* reference, the stored token, the tracked working directory and the
\* reply-thread message id unchanged.
BusyRejectChangesNothing ==
    [][(ret'.op = "execute" /\ ret'.res = "busy")
         => /\ nextPid' = nextPid
            /\ UNCHANGED <<activeProcess, claudeSessionId,
                           currentWorkingDirectory, lastTgCommandMsgId>>]_vars

\* C3: from its spawn until it closes, errors or is aborted, a process is the
\* one the busy reference refers to.
BusyHeldUntilOwnExit ==
    \A p \in Pids : (Alive(p) /\ ~procs[p].signalled) => activeProcess = p

\* a step of one of the callbacks registered on process p
CallbackOf(p) ==
    \/ \E ev \in {"sid", "err", "prog"} : Stdout(p, ev)
    \/ Stderr(p)
    \/ Close(p)
    \/ CloseFinish(p)
    \/ \E e, t \in BOOLEAN : Retry(p, e, t)
    \/ Error(p)
    \/ ErrorFinish(p)

\* C4: once abort() has been called on an invocation, none of its stdout,
\* stderr, close or error callbacks changes the busy reference, the stored
\* token or the reply-thread message id.
AbortedCallbacksInert ==
    [][\A p \in Pids :
         (procs[p].signalled /\ CallbackOf(p)) => UNCHANGED SharedState]_vars

\* the step in which the retry call made by p's close handler returns
RetryReturns(p) == procs[p].st \in {"retry", "retrying"} /\ procs'[p].st = "done"

\* C5: an invocation started with the token that saw the expiry marker clears
\* the stored token on exit and re-executes the same prompt exactly once with
\* continuation disabled (spawn failures aside); the retried invocation never
\* retries again.
RetryExactlyOnce ==
    /\ [][\A p \in Pids :
            (RetriesOnClose(p) /\ Close(p)) => claudeSessionId' = 0]_vars
    /\ [][\A p \in Pids :
            (RetryReturns(p) /\ ret'.res \notin {"error", "nodir"})
              => /\ nextPid' = nextPid + 1
                 /\ procs'[nextPid].st = "run"
                 /\ procs'[nextPid].prompt = procs[p].prompt
                 /\ procs'[nextPid].retryOf = p
                 /\ ~procs'[nextPid].useResume]_vars
    /\ [](\A q \in Pids : procs[q].retryOf # 0 => ~RetriesOnClose(q))

\* C6: no spawn passes, with the resume flag, a token that an invocation has
\* already detected as expired.
NoResumeWithExpiredToken ==
    [][\A p \in Pids :
         (procs[p].st = "none" /\ procs'[p].st = "run" /\ procs'[p].useResume)
           => procs'[p].tok \notin expired]_vars

\* C7: abort() with an active process signals it, clears the busy reference in
\* the same step while the process is still alive, and returns its pid; with
\* no active process it returns 'No active process' and changes nothing; an
\* execute that follows a successful abort immediately is not rejected as busy.
AbortFreesImmediately ==
    /\ [][ret'.op = "abort" => (ret'.res = "ok" <=> activeProcess # 0)]_vars
    /\ [][(ret'.op = "abort" /\ ret'.res = "ok")
            => /\ ret'.pid = activeProcess
               /\ activeProcess' = 0
               /\ procs' = [procs EXCEPT ![activeProcess].signalled = TRUE]]_vars
    /\ [][(ret'.op = "abort" /\ ret'.res # "ok")
            => /\ ret'.res = "No active process"
               /\ UNCHANGED <<SharedState, currentWorkingDirectory, procs, calls,
                              nextPid, progressMsgId>>]_vars
    /\ [][(ret.op = "abort" /\ ret.res = "ok" /\ ret'.op = "execute")
            => ret'.res # "busy"]_vars

\* an execute was accepted while an aborted process had not yet exited
ExecuteAcceptedAfterAbort ==
    /\ ret.op = "execute"
    /\ ret.res = "ok"
    /\ \E p \in Pids : p # ret.pid /\ Alive(p) /\ procs[p].signalled

\* C8: when a process emits 'error', the busy reference is cleared before the
\* error reaches an observer: nobody has been told of p's error while the busy
\* reference still refers to p.
ErrorSurfacedAfterRelease ==
    \A p \in Pids : procs[p].st = "erroring" => activeProcess # p

(***************************************************************************)
(* extractSummary on its own: every raw buffer of up to MaxLines lines      *)
(***************************************************************************)
SupIdle ==
    /\ activeProcess = 0
    /\ claudeSessionId = 0
    /\ lastTgCommandMsgId = 0
    /\ currentWorkingDirectory = 0
    /\ bridgeEnabled = FALSE
    /\ progressMsgId = FALSE
    /\ procs = [p \in Pids |-> NoProc]
    /\ nextPid = 1
    /\ calls = {}
    /\ nextReq = 1
    /\ expired = {}
    /\ ret = NoRet

InitSummary ==
    /\ SupIdle
    /\ sumIn \in Outputs
    /\ sumCode \in Codes
    /\ sumOut = NoSummary
    /\ SplitIdle
    /\ AuxIdle

SpecSummary == InitSummary /\ [][ExtractSummary]_vars

\* the result texts and the assistant texts of a raw buffer, in arrival order
ResultTexts(out) ==
    LET r == SelectSeq(out, LAMBDA l : l.kind = "result" /\ l.text # <<>>)
    IN [i \in 1..Len(r) |-> r[i].text]

RECURSIVE AssistantTexts(_)
AssistantTexts(out) ==
    IF out = <<>> THEN <<>>
    ELSE AssistantPush(Head(out)) \o AssistantTexts(Tail(out))

EmptySummary(exitCode) == IF exitCode = 0 THEN DoneSummary ELSE ExitSummary(exitCode)

\* C9: the summary is the result texts joined by newline when there is a
\* non-empty result text, else the assistant texts joined by newline when
\* there is one, else the last 500 characters of the raw output, or
\* 'Done.'/'Process exited with code N' when the output is empty.
SummaryAsStated ==
    sumOut # NoSummary =>
      IF ResultTexts(sumIn) # <<>>
      THEN sumOut = TextSummary(Join(ResultTexts(sumIn)))
      ELSE IF AssistantTexts(sumIn) # <<>>
      THEN sumOut = TextSummary(Join(AssistantTexts(sumIn)))
      ELSE IF RawLen(sumIn) = 0
      THEN sumOut = EmptySummary(sumCode)
      ELSE sumOut = RawSlice(FALSE,
                             IF RawLen(sumIn) > TailLen THEN RawLen(sumIn) - TailLen ELSE 0,
                             RawLen(sumIn))

\* C9 amended: the candidate is the result texts joined by newline when there
\* is a non-empty result text, else the assistant texts joined by newline; the
\* summary is the candidate with leading and trailing whitespace removed when
\* that is non-empty; otherwise it is the raw output itself when it has 1 to
\* 500 characters, an ellipsis followed by its last 500 characters when it is
\* longer, and 'Done.'/'Process exited with code N' when it is empty.
SummaryTrimmed ==
    sumOut # NoSummary =>
      LET candidate == IF ResultTexts(sumIn) # <<>>
                       THEN ResultTexts(sumIn)
                       ELSE AssistantTexts(sumIn)
          trimmed == Trim(Join(candidate))
          n == RawLen(sumIn)
      IN IF trimmed # <<>> THEN sumOut = TextSummary(trimmed)
         ELSE IF n > TailLen THEN sumOut = RawSlice(TRUE, n - TailLen, n)
         ELSE IF n > 0 THEN sumOut = RawSlice(FALSE, 0, n)
         ELSE sumOut = EmptySummary(sumCode)

\* a summary made of result texts that trimming has shortened, with assistant
\* text ignored
TrimmedResultSummary ==
    /\ sumOut.tag = "text"
    /\ ResultTexts(sumIn) # <<>>
    /\ AssistantTexts(sumIn) # <<>>
    /\ sumOut.text # Join(ResultTexts(sumIn))

(***************************************************************************)
(* splitForTelegram on its own: every body of up to MaxBodyLines lines      *)
(***************************************************************************)
InitSplit ==
    /\ SupIdle
    /\ SumIdle
    /\ splitIn \in SplitInputs
    /\ splitOut = NoSplit
    /\ AuxIdle

SpecSplit == InitSplit /\ [][SplitForTelegram]_vars

AllFit(msgs) == \A i \in 1..Len(msgs) : MsgLen(msgs[i]) <= TG_MAX_LENGTH

NLRun == <<0, 0, 0>>

RECURSIVE ChunkRuns(_)
ChunkRuns(segs) ==
    IF Len(segs) = 0 THEN <<>>
    ELSE IF Len(segs) = 1 THEN <<segs[1]>>
    ELSE <<segs[1], NLRun>> \o ChunkRuns(Tail(segs))

RECURSIVE ConcatBodies(_)
ConcatBodies(msgs) ==
    IF Len(msgs) = 0 THEN <<>>
    ELSE ChunkRuns(msgs[1].segs) \o ConcatBodies(Tail(msgs))

RECURSIVE MergeRuns(_, _)
MergeRuns(done, rest) ==
    IF Len(rest) = 0 THEN done
    ELSE LET r == rest[1]
             n == Len(done)
         IN IF r # NLRun /\ r[2] = r[3] THEN MergeRuns(done, Tail(rest))
            ELSE IF n > 0 /\ r # NLRun /\ done[n] # NLRun
                    /\ done[n][1] = r[1] /\ done[n][3] = r[2]
            THEN MergeRuns([done EXCEPT ![n] = <<r[1], done[n][2], r[3]>>], Tail(rest))
            ELSE MergeRuns(Append(done, r), Tail(rest))

SameText(a, b) == MergeRuns(<<>>, a) = MergeRuns(<<>>, b)

\* C11: for a body whose single-message assembly exceeds 4096 characters, the
\* body parts of the returned chunks, concatenated in order, are the original
\* body: no character, newlines at chunk boundaries included, is lost, added
\* or reordered.
SplitRoundTrip ==
    (splitOut.tag = "msgs" /\ MsgLen(singleMsg(splitIn)) > TG_MAX_LENGTH)
      => SameText(ConcatBodies(splitOut.msgs), ChunkRuns(singleMsg(splitIn).segs))

(***************************************************************************)
(* One invocation's progress tracker and the bridge's live message          *)
(***************************************************************************)
InitProgress == SupIdle /\ SumIdle /\ SplitIdle /\ AuxIdle

NextProgress ==
    \/ \E ev \in Events : StreamEvent(ev)
    \/ \E d \in TickSteps : Tick(d)
    \/ TimerFires
    \/ \E c \in flights, ok \in BOOLEAN : EditReturns(c, ok)
    \/ \E c \in flights, ok \in BOOLEAN : SendReturns(c, ok)
    \/ Finish
    \/ \E c \in flights, ok \in BOOLEAN : DeleteReturns(c, ok)

SpecProgress == InitProgress /\ [][NextProgress]_vars

\* C12: an updateProgress call without force reaches the transport only if at
\* least 2000 ms have passed since the previous update that reached it.
ThrottleRespected ==
    [][lastCallMs' # lastCallMs => now - lastCallMs >= PROGRESS_THROTTLE_MS]_vars

StepsOf(t, x) == {i \in 1..Len(t.steps) : t.steps[i].tool = x}

\* C13: a tool_use event for id x followed by a tool_result for id x leaves
\* exactly one visible step for that tool, in its done form.
ResultPromotesOwnStep ==
    [][\A x \in toolsUsed :
         (x \notin toolsUsed' /\ ~tracker.finished)
           => /\ Cardinality(StepsOf(tracker', x)) = 1
              /\ \A i \in StepsOf(tracker', x) : tracker'.steps[i].done]_vars

\* C14: once finish() has completed, the bridge holds no live progress message
\* and every progress message created has had a delete requested.
FinishLeavesNoPanel ==
    tracker.finishDone => (progress.progressMsgId = 0 /\ chat \subseteq deleteRequested)

\* C15: no two send/edit calls for the same live progress message are in
\* flight together.
EditsSerialized ==
    \A c1, c2 \in flights :
      (c1 # c2 /\ c1.op \in {"send", "edit"} /\ c2.op \in {"send", "edit"})
        => c1.msg # c2.msg

(***************************************************************************)
(* One orchestration run among the other users of the supervisor            *)
(***************************************************************************)
InitOrch ==
    /\ activeProcess = 0
    /\ claudeSessionId \in {0, InitTok}
    /\ lastTgCommandMsgId = 0
    /\ currentWorkingDirectory = 0
    /\ bridgeEnabled = TRUE
    /\ progressMsgId = FALSE
    /\ procs = [p \in Pids |-> NoProc]
    /\ nextPid = 1
    /\ calls = {}
    /\ nextReq = 1
    /\ expired = {}
    /\ ret = NoRet
    /\ SumIdle
    /\ SplitIdle
    /\ AuxIdle

ExecOutcomes == {"ok", "nodir", "throws"}

NextOrch ==
    \/ HandleOrchestratedChat
    \/ PreemptionSent
    \/ \E reply \in Replies : ChatReturns(reply, "ok")
    \/ \E text \in FailureTexts, o \in ChatOutcomes \ {"ok"} : ChatReturns(text, o)
    \/ ReplySent
    \/ CommandSent
    \/ \E o \in ExecOutcomes : RunExecuteCore(o)
    \/ ResultSent
    \/ LimitSent
    \/ \E a \in agents, ev \in {"sid", "err"} : AgentStdout(a, ev)
    \/ \E a \in agents : AgentStderr(a)
    \/ \E a \in agents, s \in BOOLEAN : AgentClose(a, s)
    \/ \E a \in agents : AgentCloseFinish(a)
    \/ \E a \in agents, o \in ExecOutcomes : AgentRetry(a, o)
    \/ \E a \in agents : AgentError(a)
    \/ ForeignExecute
    \/ \E a \in agents : ForeignSpawn(a)
    \/ ForeignAbort
    \/ DisableTelegram

SpecOrch == InitOrch /\ [][NextOrch]_vars

\* C16: a run whose first reasoning reply holds no [EXECUTE] block, or an empty
\* one, makes exactly one reasoning-backend call and no agent invocation, and
\* its loop ends with that round.
ConversationalRunStops ==
    run.first = "nocmd"
        => /\ run.chats = 1
           /\ run.execs = 0
           /\ run.spawns = 0
           /\ run.stage \in {"reply", "done", "crashed"}

ConversationalRunEnded ==
    run.first = "nocmd" /\ run.stage = "done" /\ run.chats = 1 /\ ~run.limit

\* C17: a run in which every reasoning reply holds a command makes exactly 5
\* reasoning-backend calls, at most 5 agent invocations, never a 6th of either,
\* and ends with the round-limit announcement.
RoundCapRespected ==
    run.every
        => /\ run.chats <= MAX_ROUNDS
           /\ run.spawns <= MAX_ROUNDS
           /\ run.stage = "done" => (run.chats = MAX_ROUNDS /\ run.limit)

OwnAgents == {a \in agents : a.src = "orch"}

\* C18: within one run the steps are sequential: at most one agent invocation
\* of the run exists at a time, and while the run is anywhere but waiting for
\* executeCore's summary (a reasoning call in flight included) none exists.
RunStepsSequential ==
    /\ Cardinality(OwnAgents) <= 1
    /\ run.stage # "wait" => OwnAgents = {}
    /\ run.stage = "wait" => \E a \in OwnAgents : a.id = run.wait

SecondRoundAfterSummary ==
    run.stage = "chat" /\ run.round >= 2 /\ run.spawns >= 1 /\ OwnAgents = {}

(***************************************************************************)
(* The bridge polling the chat server                                       *)
(***************************************************************************)
InitPoll ==
    /\ SupIdle
    /\ SumIdle
    /\ SplitIdle
    /\ ProgIdle
    /\ OrchIdle
    /\ ExtIdle
    /\ botToken = TRUE
    /\ botUserId \in {0, BotId}
    /\ lastUpdateId = 0
    /\ pollInterval = FALSE
    /\ onCommand = FALSE
    /\ onChat = FALSE
    /\ started = FALSE
    /\ fetches = {}
    /\ updates = <<>>
    /\ seen = {}
    /\ dispatched = {}
    /\ redelivered = {}

NextPoll ==
    \/ \E c \in BOOLEAN : StartPolling(c)
    \/ PollTick
    \/ \E f \in fetches, ok \in BOOLEAN : FetchReturns(f, ok)
    \/ \E u \in UpdateContents : NewUpdate(u)
    \/ Destroy

SpecPoll == InitPoll /\ [][NextPoll]_vars

\* C19: an update of a catch-up fetch or a poll whose sender is the bridge's
\* own identity, that identity being known, reaches neither onCommand nor
\* onChat.
EchoNeverDispatched ==
    \A d \in dispatched : ~(d.bot # 0 /\ d.from = d.bot)

EchoFetchedAndSkipped ==
    /\ botUserId = BotId
    /\ dispatched # {}
    /\ \E i \in seen : /\ updates[i].from = BotId
                       /\ updates[i].ours
                       /\ updates[i].text # <<>>
                       /\ \A d \in dispatched : d.id # i

MaxSeen == CHOOSE m \in seen : \A i \in seen : i <= m

\* C20: the poll cursor never decreases, equals the largest update identifier
\* of all batches fetched so far (updates filtered out or without text
\* included), and every fetch is sent with cursor + 1 as its offset.
CursorIsMaxSeen ==
    /\ [](lastUpdateId = IF seen = {} THEN 0 ELSE MaxSeen)
    /\ [][lastUpdateId' >= lastUpdateId]_vars
    /\ [][\A f \in fetches' \ fetches : f.offset = lastUpdateId + 1]_vars

CursorPastUnroutedUpdate ==
    /\ Cardinality(seen) >= 2
    /\ lastUpdateId = MaxSeen
    /\ updates[lastUpdateId].text = <<>>
    /\ fetches # {}

\* C37: an update whose chat differs from the configured chat is never
\* dispatched to onCommand or onChat, and a fetch that returned it still
\* moves the cursor to or past its identifier.
OtherChatNeverDispatched ==
    /\ \A d \in dispatched : updates[d.id].ours
    /\ \A i \in seen : ~updates[i].ours => lastUpdateId >= i

OtherChatFetchedAndSkipped ==
    /\ dispatched # {}
    /\ \E i \in seen : /\ ~updates[i].ours
                       /\ updates[i].text # <<>>
                       /\ updates[i].from = UserId
                       /\ lastUpdateId = i
                       /\ \A d \in dispatched : d.id # i

\* C21: during the life of a bridge every update is dispatched to onCommand or
\* onChat at most once, also when two fetches overlap and return the same update.
DispatchedAtMostOnce == redelivered = {}

(***************************************************************************)
(* dispatchMessage for every text and every state of the two callbacks:     *)
(* startPolling always sets onCommand, stopPolling clears both              *)
(***************************************************************************)
InitDispatch ==
    /\ SupIdle
    /\ SumIdle
    /\ SplitIdle
    /\ ProgIdle
    /\ OrchIdle
    /\ botToken \in BOOLEAN
    /\ botUserId = 0
    /\ lastUpdateId = 0
    /\ pollInterval = FALSE
    /\ onCommand \in BOOLEAN
    /\ onChat \in {c \in BOOLEAN : c => onCommand}
    /\ started = TRUE
    /\ fetches = {}
    /\ updates = <<>>
    /\ seen = {}
    /\ dispatched = {}
    /\ redelivered = {}
    /\ dispOut = NotDispatched
    /\ dispText \in MessageTexts
    /\ EnableIdle
    /\ StepIdle
    /\ HistIdle
    /\ StoreIdle
    /\ ServerIdle
    /\ ResetIdle
    /\ ChunkIdle

NextDispatch == DispatchMessage

SpecDispatch == InitDispatch /\ [][NextDispatch]_vars

IsCommandText(t) == Len(t) >= 2 /\ t[1] = "/code" /\ t[2] \in Whitespace

Remainder(t) == Trim(SubSeq(t, 3, Len(t)))

InitEnable == SupIdle /\ SumIdle /\ SplitIdle /\ AuxIdle

NextEnable ==
    \/ \E c \in EnableCalls, k \in Credentials : EnableTelegram(c, k)
    \/ \E c \in EnableCalls, a \in Answers : GetMeReturns(c, a)
    \/ \E c \in EnableCalls, a \in Answers : ChatActionReturns(c, a)
    \/ \E c \in EnableCalls : OrchInitReturns(c)
    \/ \E c \in EnableCalls : SyncReturns(c)

SpecEnable == InitEnable /\ [][NextEnable]_vars

\* polling was started on bridge b: a catch-up fetch is out or a timer is set
PollingStarted(b) ==
    \/ bridges[b].intervals > 0
    \/ \E c \in EnableCalls : enableCalls[c].stage = "sync" /\ enableCalls[c].target = b

\* C23: a bridge whose init failed at either verification call stays disabled
\* (its send and updateProgress calls return at their first test) and the enable
\* handler starts no polling on it.
FailedInitStaysDisabled ==
    \A b \in EnableCalls :
        bridges[b].init = "failed" => ~bridges[b].enabled /\ ~PollingStarted(b)

\* C24: when a call of the reasoning backend fails (non-OK status, empty reply,
\* thrown error) its result carries no command, and the loop sends the text and
\* ends the run without an agent invocation and without throwing.
ChatFailureEndsRun ==
    run.failed
        => /\ run.command = null
           /\ run.stage \in {"reply", "limit", "done"}

\* C25: a tool_result for id x promotes the step of x and no other: every other
\* tool that is still outstanding keeps its step in the running form.
ResultLeavesOthersRunning ==
    [][\A x \in toolsUsed, y \in toolsUsed' :
         (x \notin toolsUsed' /\ ~tracker.finished)
           => \A i \in StepsOf(tracker', y) : ~tracker'.steps[i].done]_vars

(***************************************************************************)
(* One tracker fed with more tool events than it shows                      *)
(***************************************************************************)
InitSteps == SupIdle /\ SumIdle /\ SplitIdle /\ AuxIdle

NextSteps == \E ev \in StepEvents : StepEvent(ev)

SpecSteps == InitSteps /\ [][NextSteps]_vars

\* C26: the visible step list holds at most 8 entries, and they are the most
\* recently appended steps in the order they were appended.
StepsAreLatestAppended ==
    LET n == Len(appended)
        k == Min(n, MAX_VISIBLE_STEPS)
    IN /\ Len(tracker.steps) = k
       /\ \A i \in 1..k : tracker.steps[i].tool = appended[n - k + i]

OldestStepsEvicted ==
    /\ Len(appended) > MAX_VISIBLE_STEPS + 1
    /\ Len(tracker.steps) = MAX_VISIBLE_STEPS
    /\ tracker.steps[1].tool = appended[Len(appended) - MAX_VISIBLE_STEPS + 1]
    /\ tracker.steps[1].done

\* C27: a trigger that arrives while a flush timer is pending arms no second
\* one (the pending timer stays as it is until it fires or is cancelled), and
\* once finish() has been called no timer is pending and no updateProgress
\* call is made, whether a timer was pending or events arrive later.
OneFlushTimerNoneAfterFinish ==
    [][/\ tracker.flushTimer # 0 => tracker'.flushTimer \in {0, tracker.flushTimer}
       /\ tracker'.finished => tracker'.flushTimer = 0
       /\ tracker.finished => lastCallMs' = lastCallMs]_vars

\* finish() cancelled the timer an assistant event had armed, a tool_use event
\* arrived after it and the time the timer was due has passed
FlushCancelledByFinish ==
    /\ tracker.finished
    /\ tracker.currentThinking
    /\ tracker.steps = <<>>
    /\ toolsUsed # {}
    /\ lastCallMs = 0
    /\ now >= PROGRESS_THROTTLE_MS + PROGRESS_THROTTLE_MS

\* the user entries of the history that hold the summary of invocation k
SummaryEntries(k) ==
    {i \in 1..Len(messages) :
        messages[i].role = "user" /\ messages[i].content = ResultText(k)}

\* C30: while the reasoning call of the round after an agent invocation is in
\* flight, the history holds the invocation's summary in exactly one user entry.
SummaryOnceInHistory ==
    (run.stage = "chat" /\ run.round >= 2)
        => Cardinality(SummaryEntries(run.execs)) = 1

\* C29: the round-limit announcement is sent if and only if the loop stopped
\* because the 5th round still requested a command; a run whose last round
\* (the 5th included) returned no command sends no announcement.
LimitAnnouncedIffCapHit ==
    /\ run.limit => (run.round = MAX_ROUNDS /\ run.command # null)
    /\ (run.stage = "done" /\ run.round = MAX_ROUNDS /\ run.command # null)
          => run.limit

(***************************************************************************)
(* The orchestrator's history under its three operations                    *)
(***************************************************************************)
InitHistory ==
    /\ SupIdle
    /\ SumIdle
    /\ SplitIdle
    /\ ProgIdle
    /\ PollIdle
    /\ DispIdle
    /\ EnableIdle
    /\ StepIdle
    /\ StoreIdle
    /\ ServerIdle
    /\ ResetIdle
    /\ ChunkIdle
    /\ run = NewRun
    /\ agents = {}
    /\ foreign = 0
    /\ \E n \in EarlierLengths :
          /\ messages = EarlierHistory(n)
          /\ historyLog = NewHistoryLog(n)

NextHistory ==
    \/ HistoryChat
    \/ \E reply \in {<<>>, <<"x">>}, o \in ChatOutcomes : HistoryChatReturns(reply, o)
    \/ HistoryAddCodeResult
    \/ HistoryClear

SpecHistory == InitHistory /\ [][NextHistory]_vars

\* C28: the history holds at most 30 entries, and they are the most recent of
\* the entries pushed since it was last cleared, in the order they were pushed.
HistoryIsLatestPushed ==
    LET n == Len(historyLog.pushed)
        k == Min(n, MAX_HISTORY)
    IN /\ Len(messages) = k
       /\ Len(messages) <= MAX_HISTORY
       /\ \A i \in 1..k : messages[i] = historyLog.pushed[n - k + i]

OldestEntriesTrimmed ==
    /\ Len(historyLog.pushed) > MAX_HISTORY + 1
    /\ Len(messages) = MAX_HISTORY
    /\ messages[1] = historyLog.pushed[Len(historyLog.pushed) - MAX_HISTORY + 1]
    /\ messages[MAX_HISTORY].role = "assistant"
    /\ \E i \in 1..MAX_HISTORY : messages[i].content[1] = "result"

\* C31: a chat() call that fails leaves the history as it was before the call.
\* The history is empty when the first call of a run is made, so it is empty
\* again once that call has failed.
FailedChatLeavesHistory ==
    (run.failed /\ run.chats = 1) => messages = <<>>

(***************************************************************************)
(* The supervisor under fair scheduling: a process that is alive closes or  *)
(* emits 'error'.                                                           *)
(***************************************************************************)
ExitOf(p) == Close(p) \/ Error(p)

FairUI == \A p \in Pids : WF_vars(ExitOf(p))

SpecUIFair == InitUI /\ [][NextUI]_vars /\ FairUI

\* C32: every accepted invocation eventually releases the busy reference: a
\* state in which the busy reference refers to process p is followed by one in
\* which it does not, whether p closes, retries, errors or is aborted.
BusyEventuallyReleased ==
    \A p \in Pids : (activeProcess = p) ~> (activeProcess # p)

\* the retry of an expired session was spawned and then aborted: it is still
\* alive and the supervisor is not busy
RetryAbortedAndReleased ==
    \E q \in Pids :
        Alive(q) /\ procs[q].retryOf # 0 /\ procs[q].signalled /\ activeProcess = 0

\* C33: no process is spawned for the prompt of an invocation that abort() has
\* terminated: the retry of the close handler spawns nothing when the process
\* that saw the expiry marker had been aborted.
NoRetryAfterAbort ==
    [][\A q \in Pids :
         (procs[q].st = "none" /\ procs'[q].st = "run" /\ procs'[q].retryOf # 0)
           => ~procs[procs'[q].retryOf].signalled]_vars

\* the step in which the close handler of p sends its summary to the chat
SendsSummary(p) ==
    /\ Close(p) \/ CloseFinish(p)
    /\ procs'[p].st = "done"
    /\ RepliesToChat(p)

\* C34: on the direct-command path the close handler of a process that was
\* preempted sends its summary as a reply to the command message of its own
\* invocation: the reply-thread id it reads and clears is never that of the
\* command that preempted it.
SummaryRepliesToOwnCommand ==
    [][\A p \in Pids :
         (procs[p].src = "tg" /\ procs[p].signalled /\ SendsSummary(p))
           => lastTgCommandMsgId \in {0, procs[p].prompt}]_vars

\* C35: at most one progress message created by updateProgress exists in the
\* chat, undeleted, at any time.
OneProgressMessage == Cardinality(chat) <= 1

(***************************************************************************)
(* The store fed by the handlers of chat messages, under fair scheduling:   *)
(* a backend call returns, executeCore returns and a process exits          *)
(***************************************************************************)
InitStore == SupIdle /\ SumIdle /\ SplitIdle /\ AuxIdle

NextStore ==
    \/ StoreTelegramCommand
    \/ StoreOrchestratedChat
    \/ \E reply \in Replies : StoreChatReturns(reply)
    \/ \E o \in ExecOutcomes : StoreExecuteCore(o)
    \/ StoreProcessExit

FairStore ==
    /\ WF_vars(\E reply \in Replies : StoreChatReturns(reply))
    /\ WF_vars(\E o \in ExecOutcomes : StoreExecuteCore(o))
    /\ WF_vars(StoreProcessExit)

SpecStore == InitStore /\ [][NextStore]_vars /\ FairStore

\* a set flag is eventually cleared, with no action of the user
RunningFlagReturns == isRunning ~> ~isRunning

\* C36: the isRunning flag that was set because a chat message was forwarded
\* returns to false without an action of the user, also when the orchestrated
\* chat ended in its first round without any agent invocation: the flag is
\* not left set when the handler of such a message has ended.
ConversationalChatClearsFlag ==
    (forwarded.kind = "orch" /\ forwarded.round = 1 /\ forwarded.stage = "idle")
        => ~isRunning

(***************************************************************************)
(* Disable and enable: a second bridge instance against the same server     *)
(***************************************************************************)
ReconnectContents ==
    {Update(<<"/code", " ", "x">>, TRUE, UserId), Update(<<"x">>, FALSE, UserId)}

InitReconnect == InitPoll

NextReconnect ==
    \/ \E c \in BOOLEAN : ServedStartPolling(c)
    \/ ServedPollTick
    \/ \E f \in fetches, ok \in BOOLEAN : ServedFetchReturns(f, ok)
    \/ \E f \in fetches : OldFetchReturns(f)
    \/ \E u \in ReconnectContents : ServedNewUpdate(u)
    \/ Disconnect
    \/ \E bot \in {0, BotId} : Reconnect(bot)

SpecReconnect == InitReconnect /\ [][NextReconnect]_vars

\* C38: an update dispatched by a bridge before a disable is not dispatched
\* again by the bridge a later enable creates (cursor 0, catch-up fetch), the
\* server answering with the updates at or above the largest offset it was
\* sent so far.
NotDispatchedAfterReconnect == again = {}

(***************************************************************************)
(* The desktop UI's invocations with 'code:resetSession' at any point       *)
(***************************************************************************)
InitReset == InitUI

NextReset ==
    \/ \E d \in Dirs, e, t \in BOOLEAN : UIExecute(d, e, t)
    \/ Abort
    \/ \E p \in Pids, ev \in {"sid", "err", "prog"} : Stdout(p, ev)
    \/ \E p \in Pids : Stderr(p)
    \/ \E p \in Pids : Close(p)
    \/ \E p \in Pids, e, t \in BOOLEAN : Retry(p, e, t)
    \/ \E p \in Pids : Error(p)
    \/ ResetSession

SpecReset == InitReset /\ [][NextReset]_vars

\* the tokens of the invocations started after the last reset
LaterTokens == {FreshTok(p) : p \in {q \in Pids : q >= resetPid}}

\* C39: after resetSession no invocation is started with the resume flag
\* until a token was captured from an invocation that itself started after
\* the reset: an invocation started after a reset resumes only a token of an
\* invocation started after that reset.
ResumeOnlyTokenAfterReset ==
    \A p \in Pids :
        (resetPid # 0 /\ p >= resetPid /\ Alive(p) /\ procs[p].useResume)
            => procs[p].tok \in LaterTokens

(***************************************************************************)
(* One process's output delivered to the 'data' handler in chunks of any    *)
(* sizes                                                                   *)
(***************************************************************************)
InitChunks ==
    /\ SupIdle /\ SumIdle /\ SplitIdle /\ ProgIdle /\ OrchIdle /\ PollIdle
    /\ DispIdle /\ EnableIdle /\ StepIdle /\ HistIdle /\ StoreIdle /\ ServerIdle
    /\ ResetIdle
    /\ stream \in StreamTexts
    /\ received = <<>>
    /\ decoded = <<>>

NextChunks == \E n \in 1..(4 * MaxStreamLines) : StdoutData(n)

SpecChunks == InitChunks /\ [][NextChunks]_vars

\* C40: the events decoded from a process's output depend only on its
\* sequence of complete lines, not on how the output was cut into chunks:
\* when all of it was delivered, the events decoded are those of the lines.
ChunkingDoesNotMatter ==
    stream = <<>> => decoded = decodeChunk(received)

====
